---- MODULE Spec2Model ----
(***************************************************************************)
(* State-machine model of the asynchronous I/O core (src/unix/aio.c):      *)
(* io_setup, io_submit / iocb_enqueue, the aio_complete completion         *)
(* callback, io_getevents / io_getevents_bh and io_destroy with its drain. *)
(*                                                                         *)
(* Granularity: one action per handler.  A handler that blocks ends its    *)
(* action where the thread is parked on its blockq; io_submit and          *)
(* io_getevents are split between looking the context up and taking its    *)
(* lock; iocb_enqueue's error path after admission is a second action,     *)
(* because it re-takes the context lock; aio_complete is split where it    *)
(* drops the context lock.                                                 *)
(***************************************************************************)
EXTENDS Integers, Sequences, FiniteSets, Bags, TLC

(* ------------------------------ bounds --------------------------------- *)
MaxEvents == 2      \* largest nr_events handed to io_setup
MaxCalls  == 2      \* io_submit / io_getevents / io_destroy calls over a run
MaxBatch  == 2      \* longest iocb array handed to io_submit
MaxNrArg  == 2      \* largest nr / min_nr handed to io_getevents
MaxBufs == 5                            \* objects the RX buffer heap can hold
\* The system calls made on the context of the lock-grain model.
MaxLkCalls == 3

\* The calls of pci_platform_init_bar over a run.
MaxBarInits == 3

\* total_processors and the device's VIRTIO_NET_R_MAX_VQ range over 1..MaxCpus
\* and 1..MaxDevPairs; the packets sent after attach.
MaxCpus == 4

MaxDevPairs == 3

MaxSends == 2

RxEntries == 2                          \* virtqueue_entries(rxq)
MaxRef == 3                             \* references on one pbuf
MaxTx == 2                              \* TX messages in flight
MaxTail == 7                            \* bytes of a frame after its 8-byte blocks
MaxSetups == 1      \* io_setup calls over a run

(* -------------------------- program constants -------------------------- *)
\* 0xa10a10a1 as its high and low 16-bit halves (0xa10a, 0x10a1)
AIO_RING_MAGIC == <<41226, 4257>>
EFAULT      == 14
EINVAL      == 22
EBADF       == 9
EAGAIN      == 11
ENOMEM      == 12
EINTR       == 4
ERESTARTSYS == 512

Threads == {1, 2}
Ctxs    == {1, 2}                       \* struct aio objects / ring mappings
Ids     == {0, 1}                       \* p->aio_ids

(* ------------------------ user memory: the iocbs ----------------------- *)
\* struct iocb instances the user program owns, keyed by their address.
\* Address 0 is a pointer that fails validate_user_memory.
Iocb(addr) ==
    CASE addr = 1 -> [aio_data |-> 101, aio_reserved1 |-> 0, aio_reserved2 |-> 0,
                      aio_buf |-> 1, aio_nbytes |-> 16, aio_flags |-> 0,
                      aio_fildes |-> 3, aio_lio_opcode |-> "PREAD"]
      [] addr = 2 -> [aio_data |-> 102, aio_reserved1 |-> 0, aio_reserved2 |-> 0,
                      aio_buf |-> 1, aio_nbytes |-> 8, aio_flags |-> 0,
                      aio_fildes |-> 3, aio_lio_opcode |-> "PWRITE"]
      [] addr = 3 -> [aio_data |-> 103, aio_reserved1 |-> 1, aio_reserved2 |-> 0,
                      aio_buf |-> 1, aio_nbytes |-> 16, aio_flags |-> 0,
                      aio_fildes |-> 3, aio_lio_opcode |-> "PREAD"]
      [] addr = 4 -> [aio_data |-> 104, aio_reserved1 |-> 0, aio_reserved2 |-> 0,
                      aio_buf |-> 1, aio_nbytes |-> 16, aio_flags |-> 0,
                      aio_fildes |-> 3, aio_lio_opcode |-> "FSYNC"]
      [] addr = 5 -> [aio_data |-> 105, aio_reserved1 |-> 0, aio_reserved2 |-> 0,
                      aio_buf |-> 1, aio_nbytes |-> 16, aio_flags |-> 0,
                      aio_fildes |-> 7, aio_lio_opcode |-> "PREAD"]
      [] addr = 6 -> [aio_data |-> 106, aio_reserved1 |-> 0, aio_reserved2 |-> 0,
                      aio_buf |-> 1, aio_nbytes |-> 16, aio_flags |-> 0,
                      aio_fildes |-> 4, aio_lio_opcode |-> "PWRITE"]
      [] addr = 7 -> [aio_data |-> 107, aio_reserved1 |-> 0, aio_reserved2 |-> 0,
                      aio_buf |-> 1, aio_nbytes |-> 16, aio_flags |-> 0,
                      aio_fildes |-> 5, aio_lio_opcode |-> "PWRITE"]
      [] addr = 8 -> [aio_data |-> 108, aio_reserved1 |-> 0, aio_reserved2 |-> 0,
                      aio_buf |-> 1, aio_nbytes |-> 16, aio_flags |-> 0,
                      aio_fildes |-> 3, aio_lio_opcode |-> "PREAD"]
      [] addr = 9 -> [aio_data |-> 109, aio_reserved1 |-> 0, aio_reserved2 |-> 0,
                      aio_buf |-> 1, aio_nbytes |-> 16, aio_flags |-> 1,
                      aio_resfd |-> 8,
                      aio_fildes |-> 3, aio_lio_opcode |-> "PREAD"]
      [] addr = 10 -> [aio_data |-> 110, aio_reserved1 |-> 0, aio_reserved2 |-> 0,
                       aio_buf |-> 1, aio_nbytes |-> 16, aio_flags |-> 1,
                       aio_resfd |-> 9,
                       aio_fildes |-> 3, aio_lio_opcode |-> "PREAD"]
      [] addr = 11 -> [aio_data |-> 111, aio_reserved1 |-> 0, aio_reserved2 |-> 0,
                       aio_buf |-> 1, aio_nbytes |-> 16, aio_flags |-> 1,
                       aio_resfd |-> 4,
                       aio_fildes |-> 3, aio_lio_opcode |-> "PREAD"]

IocbAddrs == 0..11

\* The iocbs whose page the program unmaps while io_submit works on them:
\* they pass validate_user_memory and the reads after admission fault.
IocbUnmapped == {8}

AIO_RESFD_INVALID == -1

\* The res_fd iocb_enqueue binds in the completion closure.
ResFd(iocb) ==
    IF iocb.aio_flags = 1 THEN iocb.aio_resfd ELSE AIO_RESFD_INVALID

\* The process's file descriptors: 3 is a read/write memory file, 4 is open
\* read-only, 5 is a file of a kind without write callable, 8 is an eventfd;
\* every other number is closed.
Fds == {3, 4, 5, 8}

fdesc_get(fd) ==
    CASE fd = 3 -> [read |-> TRUE, write |-> TRUE, readable |-> TRUE, writable |-> TRUE]
      [] fd = 4 -> [read |-> TRUE, write |-> TRUE, readable |-> TRUE, writable |-> FALSE]
      [] fd = 5 -> [read |-> TRUE, write |-> FALSE, readable |-> TRUE, writable |-> TRUE]
      [] fd = 8 -> [read |-> TRUE, write |-> TRUE, readable |-> TRUE, writable |-> TRUE]
      [] OTHER  -> [read |-> FALSE, write |-> FALSE, readable |-> FALSE, writable |-> FALSE]

\* What the fd's read/write hands to the completion closure: the memory file
\* transfers every byte asked for.
Result(addr) == Iocb(addr).aio_nbytes

(* ------------------------------- state --------------------------------- *)
VARIABLES
    aio,        \* [Ctxs -> struct aio]
    ring,       \* [Ctxs -> struct aio_ring] (user-mapped memory)
    aio_tab,    \* p->aio: [Ids -> Ctxs \cup {0}]
    th,         \* [Threads -> thread state: position, locals, blockq action]
    ops,        \* bag of aio_complete closures not yet finished
    fdrefs,     \* [Fds -> references taken by fdesc_get and not yet put]
    cfg,        \* the inputs the environment draws from (fixed by Init):
                \* iocb addresses, number of calls, io_submit's nr,
                \* io_getevents' min_nr and nr, the CPUs that run the PCI
                \* accessors, the number of io_setup calls
    plock,      \* the process lock: "free", or "stuck" once a holder never released it
    gh,         \* history variables (not program state)
    mem,        \* the ring and the context lock at the grain of single loads
                \* and stores (aio_complete against io_getevents_bh)
    pci,        \* the PCI configuration ports and the CPUs using them
    net,        \* the virtio-net driver: RX buffers, TX pbufs, the stack lock
    csm,        \* a received frame and its checksum request
    lk,         \* one AIO context from io_setup on, at the grain of its lock
                \* operations: who holds the spinlock, who writes what
    bar,        \* the BAR registers of a PCI device and the bus's iomem heap
    att         \* virtio_net_attach: the queue pairs, txq_map, the control
                \* command and the CPUs in low_level_output

vars == <<aio, ring, aio_tab, th, ops, fdrefs, plock, gh, cfg, mem, pci, net,
          csm, lk, bar, att>>

\* What the system calls of the AIO core leave alone.
aux == <<mem, pci, net, csm, lk, bar, att>>

\* What the statement-level steps of the AIO core leave alone.
aiovars == <<aio, ring, aio_tab, th, ops, fdrefs, plock, gh, cfg, pci, net,
            csm, lk, bar, att>>

\* What the PCI accessors leave alone.
nonpci == <<aio, ring, aio_tab, th, ops, fdrefs, plock, gh, cfg, mem, net,
           csm, lk, bar, att>>

\* What the virtio-net driver leaves alone.
nonnet == <<aio, ring, aio_tab, th, ops, fdrefs, plock, gh, cfg, mem, pci,
           csm, lk, bar, att>>

\* What the checksum of a received frame leaves alone.
noncsm == <<aio, ring, aio_tab, th, ops, fdrefs, plock, gh, cfg, mem, pci,
           net, lk, bar, att>>

\* What the lock-grain steps of an AIO context leave alone.
nonlk == <<aio, ring, aio_tab, th, ops, fdrefs, plock, gh, cfg, mem, pci,
          net, csm, bar, att>>

\* What the BAR set-up leaves alone.
nonbar == <<aio, ring, aio_tab, th, ops, fdrefs, plock, gh, cfg, mem, pci,
           net, csm, lk, att>>

\* What virtio_net_attach and the control command leave alone.
nonatt == <<aio, ring, aio_tab, th, ops, fdrefs, plock, gh, cfg, mem, pci,
           net, csm, lk, bar>>

NoEvent == [data |-> 0, obj |-> 0, res |-> 0]

Slots == 0..MaxEvents                   \* events[] indices of the largest ring

NoAio == [st |-> "none", nr |-> 0, ongoing_ops |-> 0, copied_evts |-> 0,
          bq |-> 0, refcount |-> 0]

NoRing == [mapped |-> FALSE, id |-> 0, nr |-> 0, head |-> 0, tail |-> 0,
           magic |-> <<0, 0>>, compat_features |-> 0, incompat_features |-> 0,
           events |-> [i \in Slots |-> NoEvent]]

NoBuf == [i \in 0..(MaxNrArg - 1) |-> NoEvent]

\* A thread's position and the locals of the system call it is in.  sub_nr,
\* io_ops, iocbp, rv: io_submit's nr and loop locals; kind, min_nr, nr, events,
\* timeout: the arguments bound in the io_getevents_bh closure parked on the
\* thread's blockq; buf: the caller's events array; nr_events: io_setup's
\* argument; ctx_id: the ring pointer passed in (io_setup: stored through
\* ctx_idp).  History: disp, the
\* operations this io_submit handed to an fd; got, the events this
\* io_getevents took out of the ring; timedout, its timer fired.
IdleThread == [pc |-> "idle", call |-> "none", aio |-> 0,
               sub_nr |-> 0, io_ops |-> 0, iocbp |-> 0, rv |-> 0, disp |-> 0,
               kind |-> "none", min_nr |-> 0, nr |-> 0, events |-> "null",
               timeout |-> "zero", buf |-> NoBuf, got |-> 0, timedout |-> FALSE,
               nr_events |-> 0, ctx_id |-> 0, ret |-> 0]

\* History that lasts: calls, setups: budget counters; fifo: per context, the
\* events the completion callbacks produced and no harvest has consumed,
\* oldest first; destroyed: contexts whose io_destroy has returned 0; first:
\* the iocb address of the first operation handed to an fd; lost: the ring
\* slots the io_getevents calls that have returned took out of the ring,
\* less the counts they returned.
\* History of the step just taken (reset by every step): last: the thread and
\* the locals of the system call that returned; late: a completion wrote to
\* the ring of a destroyed context; oob: a harvest stored beyond the caller's
\* nr entries; dc: io_destroy_complete ran for thread t, the largest
\* ongoing_ops it read, whether it released the table's reference.
NoLast == [t |-> 0, x |-> IdleThread]

NoDc == [t |-> 0, ran |-> FALSE, ops |-> 0, released |-> FALSE]

\* cw (reset by every step): what aio_complete did after it dropped the
\* context lock, in order, for which res_fd, and whether the event of its
\* operation was in the ring before. pctx (lasting): the references on the
\* process context that closures hold.
NoCw == [ran |-> FALSE, res_fd |-> AIO_RESFD_INVALID, did |-> <<>>]

InitGh == [calls |-> 0, setups |-> 0,
           fifo |-> [c \in Ctxs |-> <<>>],
           destroyed |-> {}, first |-> 0,
           last |-> NoLast, late |-> FALSE, oob |-> FALSE, dc |-> NoDc,
           cw |-> NoCw, pctx |-> 0, lost |-> 0]

(* ------------------------- PCI: ports and CPUs ------------------------- *)
CONF1_ADDR_PORT == 3320                 \* 0x0cf8
CONF1_DATA_PORT == 3324                 \* 0x0cfc
PCI_BUSMAX  == 255
PCI_SLOTMAX == 31
PCI_FUNCMAX == 7
PCI_REGMAX  == 255

Cpus == {1, 2}

\* struct pci_dev instances: a device on bus 0, and one whose bus number is
\* out of range.
PciDev(d) ==
    CASE d = 1 -> [bus |-> 0, slot |-> 3, function |-> 0]
      [] d = 2 -> [bus |-> 256, slot |-> 0, function |-> 0]

\* u32 data = -1: all ones.
AllOnes == -1

\* A CPU: ifl: its interrupt-enable flag; pc: where it is in the accessor fn
\* it runs; dev, reg, bytes: the arguments (for a BAR accessor bytes is the
\* width and reg the BAR type); flags, port, data: the accessor's locals.
\* History: io: the port and memory accesses of the call so far, each with
\* the interrupt-enable flag at that moment, and the interrupts taken since
\* the call began; entry: the interrupt-enable flag at entry.
IdleCpu(ifl) ==
    [ifl |-> ifl, pc |-> "idle", fn |-> "none", dev |-> 0, reg |-> 0,
     bytes |-> 0, bar |-> "none", flags |-> FALSE, port |-> 0,
     data |-> AllOnes, io |-> <<>>, entry |-> FALSE]

NoPciLast == [ran |-> FALSE, cpu |-> 0, x |-> IdleCpu(FALSE)]

\* addr: the value latched in CONFIG_ADDRESS (0 before the first write, the
\* enable bit clear); cpu: the CPUs; last (history, reset by every step): the accessor
\* that returned in the step just taken, with its locals.
InitPci ==
    [addr |-> <<0, 0>>, cpu |-> [c \in Cpus |-> IdleCpu(TRUE)], last |-> NoPciLast]

(* ------------------------- virtio-net: the state ----------------------- *)
RxQueues == {1, 2}                      \* the RX queues of two queue pairs
Bufs == 1..MaxBufs                      \* the objects of vn->rxbuffers
Pbufs == {1, 2}                         \* pbufs of the stack sent by TX

\* sizeof(struct virtio_net_hdr_mrg_rxbuf)
NetHeaderLen == 12

\* pad(net_header_len + sizeof(struct eth_hdr) + sizeof(struct eth_vlan_hdr)
\*     + 1500, 8)
RxBufLen == ((NetHeaderLen + 14 + 4 + 1500 + 7) \div 8) * 8

\* History of the driver function that ran in the step just taken; for
\* input: the queue and buffer, the payload length, the checksum request,
\* whether a checksum was stored, whether the pbuf was handed to the stack and
\* accepted, whether the driver released the buffer, and where the buffer
\* was before post_receive ran.
NoNetLast ==
    [op |-> "none", q |-> 0, b |-> 0, plen |-> 0, needs |-> FALSE,
     csum_start |-> 0, csum_offset |-> 0, stored |-> FALSE, tostack |-> FALSE,
     accepted |-> FALSE, released |-> FALSE, bst |-> "none", p |-> 0,
     pre |-> 0]

\* up: virtioif_init has run; halted: an assert of the driver failed or an
\* access faulted; lock: the lwIP lock; buf: where each RX buffer is ("pool":
\* free in vn->rxbuffers, "posted": in the RX queue q, "stack": owned by the
\* stack, "driver": taken out of a queue and neither released nor handed
\* over); dbl (history): a buffer was released that was in the pool; ref:
\* the reference count of each pbuf (0: freed); held (history): the
\* references the stack holds; tx: the TX messages committed and not yet
\* completed, per pbuf.
InitNet ==
    [up |-> FALSE, halted |-> FALSE, lock |-> "free",
     buf |-> [b \in Bufs |-> [st |-> "pool", q |-> 0]],
     dbl |-> FALSE,
     ref |-> [p \in Pbufs |-> 0],
     held |-> [p \in Pbufs |-> 0],
     tx |-> [p \in Pbufs |-> 0],
     last |-> NoNetLast]

\* No frame.
NoCsm == [buf |-> <<>>, csum_start |-> 0, csum_offset |-> 0, done |-> FALSE,
          stored |-> FALSE, out |-> <<>>]

\* The aio_complete closures whose stores are followed one by one, the
\* thread that runs io_getevents_bh and the thread that runs iocb_enqueue.
Writers == {1, 2, 3}

Reader == 4

Submitter == 5

\* The statement-level state: lock: 0 or the holder; head, tail, ev: the ring
\* of a context set up with nr_events = MaxEvents, every field of a slot
\* holding the closure that stored it last; ongoing_ops; w: each closure's
\* position ("none" until iocb_enqueue creates it) and local tail; r: the
\* reader's position and local head and tail; s: the submitter's position.
InitMem ==
    [lock |-> 0, head |-> 0, tail |-> 0, ongoing_ops |-> 0,
     ev |-> [i \in Slots |-> NoEvent],
     w |-> [a \in Writers |-> [pc |-> "none", tail |-> 0]],
     r |-> [pc |-> "idle", head |-> 0, tail |-> 0],
     s |-> "idle"]

(* ------------------------ state of the lock-grain model ---------------- *)
\* The threads that call io_getevents and io_destroy on the context, the
\* thread in iocb_enqueue, the completion closure, and a lock word that
\* nobody initialised.
LkReaders == {1, 2}

LkSubmitter == 3

LkCompleter == 4

Junk == 9

\* tab: the process table's entry ("none", "set" by aio_alloc, "cleared" by
\* io_destroy); s: the statements of io_setup that have run, counted from
\* aio_alloc; lock: 0, the holder, or Junk; head,
\* tail, ongoing_ops, copied_evts, bq: the guarded fields (bq: 0, a reader or
\* Junk); r: per reader its position, call, arguments and the flags its
\* blockq action is applied with; e, w: the positions of iocb_enqueue and
\* aio_complete; wbq: the blockq aio_complete captured; inflight: operations
\* handed to an fd; calls: the system calls made.
\* History: rel: the aio_unlock calls of the running io_getevents_bh; bad
\* (of the step just taken): what went against the lock discipline.
IdleReader == [pc |-> "idle", kind |-> "none", min_nr |-> 0, nr |-> 0,
               tmo |-> "zero", ev |-> FALSE, flags |-> {}, rel |-> 0]

InitLk ==
    [tab |-> "none", s |-> 0, lock |-> 0, head |-> 0, tail |-> 0,
     ongoing_ops |-> 0, copied_evts |-> 0, bq |-> 0,
     r |-> [x \in LkReaders |-> IdleReader],
     e |-> "idle", w |-> "idle", wbq |-> 0, inflight |-> 0, calls |-> 0,
     crashed |-> FALSE, bad |-> {}]

(* ------------------------- state of the BAR model ---------------------- *)
\* A BAR register is kept as its bits 31..4 (hi) and its bits 3..0 (lo).
\* reg: the register of each BAR; size: the size the device decodes, in
\* units of 16 bytes; iomem: the bus's iomem range [base, end) in units of
\* 16 bytes, or <<>> when the bus has none; used: the sub-ranges allocated.
\* History: inits: the calls made; last: the last call of
\* pci_platform_init_bar: its BAR, the register before it, whether it asked
\* the heap and what it got, whether it wrote a base, and the writes of the
\* sizing probe.
Bars == {0, 1}

NoBarLast == [bar |-> 0, ran |-> FALSE, wrote |-> FALSE, tried |-> FALSE,
              base |-> 0, before |-> [hi |-> 0, lo |-> 0], probes |-> 0]

NoBar == [reg |-> [b \in Bars |-> [hi |-> 0, lo |-> 0]],
          size |-> [b \in Bars |-> 0],
          iomem |-> <<>>, used |-> {}, inits |-> 0, last |-> NoBarLast]

\* virtio_net_attach. Inputs (fixed by the initial state): ncpu:
\* total_processors; device_max: the device's VIRTIO_NET_R_MAX_VQ; mq:
\* VIRTIO_NET_F_MQ is among the negotiated features; serial: the callers of
\* low_level_output run it one at a time. Program state: pc: "probe" before
\* attach, "cmd" while the control message is with the device, "up" once the
\* netif is registered, "halted" after a failed assertion; max_vq_pairs,
\* vq_pairs; queues: the virtqueue indices allocated; polling: the queues
\* set to polling; aff: the CPU set handed to virtio_set_vq_affinity for
\* each queue; txq_map: the TX queue index of each CPU (Unset: never
\* stored); ctl: the control queue's index; driver_ok: the device status has
\* DRIVER_OK; cmd: the vnet_cmd (st: "none", "live" or "freed"); netif: the
\* calls of netif_add; seeded: the RX queues filled by virtioif_init; cpu:
\* each CPU's position in low_level_output and the queue it works on.
\* History: compl: the statuses the completion was applied to; frees: the
\* deallocations of the command; late: the command was read after it was
\* freed; log: the order of DRIVER_OK, the command, its acknowledgement and
\* netif_add; users: the CPUs that have pushed to each TX queue; sends; len:
\* the written length the device returned the control message with.
AttCpus == 0..(MaxCpus - 1)

AttQueues == 0..(2 * MaxDevPairs)

Unset == -1

NoCmd == [st |-> "none", class |-> "", cmd |-> "", ack |-> 0, data |-> 0,
          completion |-> ""]

NoAtt == [ncpu |-> 1, device_max |-> 1, mq |-> FALSE, serial |-> TRUE,
          pc |-> "probe", max_vq_pairs |-> 0, vq_pairs |-> 0,
          queues |-> {}, polling |-> {},
          aff |-> [q \in AttQueues |-> {}],
          txq_map |-> [c \in AttCpus |-> Unset],
          ctl |-> Unset, driver_ok |-> FALSE, cmd |-> NoCmd,
          netif |-> 0, seeded |-> {},
          cpu |-> [c \in AttCpus |-> [pc |-> "idle", txq |-> Unset]],
          compl |-> <<>>, frees |-> 0, late |-> FALSE, log |-> <<>>,
          users |-> [q \in AttQueues |-> {}], sends |-> 0, len |-> Unset]

Start0 ==
    /\ aio = [c \in Ctxs |-> NoAio]
    /\ ring = [c \in Ctxs |-> NoRing]
    /\ aio_tab = [i \in Ids |-> 0]
    /\ th = [t \in Threads |-> IdleThread]
    /\ ops = EmptyBag
    /\ fdrefs = [f \in Fds |-> 0]
    /\ plock = "free"
    /\ gh = InitGh
    /\ mem = InitMem
    /\ pci = InitPci
    /\ net = InitNet
    /\ lk = InitLk

Start1 == Start0 /\ csm = NoCsm

Start2 == Start1 /\ bar = NoBar

Start == Start2 /\ att = NoAtt

\* The user program submits reads of one iocb, and iocbs that are refused.
Init ==
    /\ Start
    /\ cfg = [addrs |-> {0, 1, 3, 4, 5, 6}, calls |-> MaxCalls,
              batch |-> 0..MaxBatch, nrarg |-> 0..MaxNrArg,
              cpus |-> {},
              setups |-> MaxSetups]

(* ----------------------- global-state helpers -------------------------- *)
\* The handlers below are written as functions from a snapshot
\* G = [aio, ring, th, gh] to the snapshot after the handler's code has run, so
\* that a handler which calls another one (a completion closure applied from
\* io_getevents_bh, a waiter's action applied from blockq_wake_one) is modelled
\* by composing them.
Snapshot == [aio |-> aio, ring |-> ring, th |-> th,
             gh |-> [gh EXCEPT !.last = NoLast, !.late = FALSE, !.oob = FALSE,
                               !.dc = NoDc, !.cw = NoCw]]

Install(G) ==
    \E g \in {G} :
        /\ aio' = g.aio
        /\ ring' = g.ring
        /\ th' = g.th
        /\ gh' = g.gh

\* aio_free: unmap the ring and free the descriptor.
aio_free(G, c) ==
    [G EXCEPT !.aio[c] = [NoAio EXCEPT !.st = "freed"],
              !.ring[c] = NoRing,
              !.gh.fifo[c] = <<>>]

\* refcount_release that runs the free closure one reference early.
refcount_release_early(G, c) ==
    IF G.aio[c].refcount <= 2 THEN aio_free(G, c)
    ELSE [G EXCEPT !.aio[c].refcount = @ - 1]

\* refcount_release: the last release runs the free closure.
refcount_release(G, c) ==
    IF G.aio[c].refcount = 1 THEN aio_free(G, c)
    ELSE [G EXCEPT !.aio[c].refcount = @ - 1]

\* The system call of thread t returns rv (for the blocking calls:
\* apply(syscall_io_complete, rv)).
syscall_return(G, t, rv) ==
    [G EXCEPT !.gh.last = [t |-> t, x |-> [G.th[t] EXCEPT !.ret = rv, !.pc = "idle"]],
              !.th[t] = IdleThread]

Drop(s, n) == IF n >= Len(s) THEN <<>> ELSE SubSeq(s, n + 1, Len(s))

(* ------------------------------ ring indices -------------------------- *)
\* "if (i >= aio->nr) i = 0": an index read from the user-mapped ring header.
ClampIndex(i, nr) == IF i >= nr THEN 0 ELSE i

\* AdvanceIndex that forgets the increment.
AdvanceIndex_stay(i, nr) == IF i + 1 = nr THEN 0 ELSE i

\* "if (++i == aio->nr) i = 0"
AdvanceIndex(i, nr) == IF i + 1 = nr THEN 0 ELSE i + 1

(* --------------------- io_getevents_bh and the drain ------------------- *)
\* HarvestSlot taking the newest event of the ring.
HarvestSlot_newest(head, tail, nr) == (tail + nr - 1) % nr

\* "&ring->events[head]": the copy loop takes the slot at head, the oldest.
HarvestSlot(head, tail, nr) == head

\* runtime_memcpy(&events[i], ..) faults: "bad" is an array that passed
\* validate_user_memory and has no page behind it, "bad1" one whose first
\* entry is mapped and whose second is not.
Faults(events, i) == events = "bad" \/ (events = "bad1" /\ i >= 1)

\* RingAfterPass that stores head and tail on the fault path too.
RingAfterPass_always(r, h, tail0) == [r EXCEPT !.head = h.head, !.tail = tail0]

\* "ring->head = head; ring->tail = tail" after the loop; a fault leaves the
\* loop for the label out and skips the two stores.
RingAfterPass(r, h, tail0) ==
    IF h.fault THEN r ELSE [r EXCEPT !.head = h.head, !.tail = tail0]

RECURSIVE HarvestLoop(_, _, _, _, _)
\* The copy loop of io_getevents_bh.  h = [head, copied, buf, fault, n, oob]
\* carries the loop's locals; n and oob are history (slots consumed, a store
\* beyond the caller's nr entries).
HarvestLoop(r, anr, tail, x, h) ==
    IF h.head = tail THEN h
    ELSE IF Faults(x.events, h.copied) THEN [h EXCEPT !.fault = TRUE]
    ELSE
      LET ev == r.events[HarvestSlot(h.head, tail, anr)]
          store == x.events # "null"
          buf1 == IF store /\ h.copied \in DOMAIN h.buf
                  THEN [h.buf EXCEPT ![h.copied] = ev] ELSE h.buf
          head1 == AdvanceIndex(h.head, anr)
          h1 == [head |-> head1, copied |-> h.copied + 1, buf |-> buf1,
                 fault |-> FALSE, n |-> h.n + 1,
                 oob |-> h.oob \/ (store /\ h.copied >= x.nr)]
      IN IF h1.copied = x.nr THEN h1 ELSE HarvestLoop(r, anr, tail, x, h1)

RECURSIVE io_getevents_bh(_, _, _)
RECURSIVE io_destroy_internal(_, _)

\* NullifyRv that answers EINTR whatever the timeout.
NullifyRv_eintr(timeout) == -EINTR

\* "rv = (timeout == infinity) ? -ERESTARTSYS : -EINTR"
NullifyRv(timeout) == IF timeout = "inf" THEN -ERESTARTSYS ELSE -EINTR

\* io_destroy_complete without the test of ongoing_ops.
io_destroy_complete_norecheck(G, t) ==
    LET c == G.th[t].aio
        G1 == [G EXCEPT !.gh.destroyed = @ \cup {c},
                        !.gh.dc = [t |-> t, ran |-> TRUE,
                                   ops |-> G.aio[c].ongoing_ops,
                                   released |-> TRUE]]
    IN syscall_return(refcount_release(G1, c), t, 0)

\* io_destroy_complete, the drain's completion closure for thread t.
io_destroy_complete(G, t) ==
    LET c == G.th[t].aio IN
    IF G.aio[c].ongoing_ops # 0
    THEN io_destroy_internal(
             [G EXCEPT !.gh.dc = [t |-> t, ran |-> TRUE,
                                  ops |-> G.aio[c].ongoing_ops,
                                  released |-> G.gh.dc.released]], t)
    ELSE LET G1 == [G EXCEPT !.gh.destroyed = @ \cup {c},
                             !.gh.dc = [t |-> t, ran |-> TRUE,
                                        ops |-> G.aio[c].ongoing_ops,
                                        released |-> TRUE]]
         IN syscall_return(refcount_release(G1, c), t, 0)

\* io_destroy_internal for thread t on the context it took from the table.
io_destroy_internal(G, t) ==
    LET c == G.th[t].aio
        ongoing_ops == G.aio[c].ongoing_ops
    IN IF ongoing_ops # 0
       THEN LET G1 == [G EXCEPT !.aio[c].copied_evts = 0,
                                !.aio[c].bq = t,
                                !.aio[c].refcount = @ + 1,
                                !.th[t].kind = "drain",
                                !.th[t].min_nr = ongoing_ops,
                                !.th[t].nr = ongoing_ops,
                                !.th[t].events = "null",
                                !.th[t].timeout = "inf"]
            IN io_getevents_bh(G1, t, {})
       ELSE io_destroy_complete(G, t)

\* One run of the blockq action of thread t with the given BLOCKQ_ACTION_*
\* flags: either the thread stays (or becomes) parked, or the action finishes,
\* applies its completion and drops its reference.
\* (The snapshot and the loop's result are bound as single values, g and h.)
io_getevents_bh(G, t, flags) ==
    CHOOSE after \in {
      LET x == g.th[t]
          c == x.aio
          a == g.aio[c]
          r == g.ring[c]
          Out(G1, rv) ==
              LET G2 == [G1 EXCEPT !.aio[c].bq = 0,
                                   !.th[t].timedout = "TIMEDOUT" \in flags]
                  G3 == IF x.kind = "drain" THEN io_destroy_complete(G2, t)
                        ELSE syscall_return(
                                 [G2 EXCEPT !.gh.lost = @ + G1.th[t].got
                                                - (IF rv > 0 THEN rv ELSE 0)],
                                 t, rv)
              IN refcount_release(G3, c)
      IN IF "NULLIFY" \in flags
         THEN Out(g, NullifyRv(x.timeout))
         ELSE
           LET head0 == ClampIndex(r.head, a.nr)
               tail0 == ClampIndex(r.tail, a.nr)
           IN CHOOSE res \in {
                IF h.fault
                THEN Out([g EXCEPT !.ring[c] = RingAfterPass(r, h, tail0),
                                   !.aio[c].copied_evts = h.copied,
                                   !.th[t].buf = h.buf], -EFAULT)
                ELSE
                  LET G1 == [g EXCEPT !.ring[c] = RingAfterPass(r, h, tail0),
                                      !.aio[c].copied_evts = h.copied,
                                      !.th[t].buf = h.buf,
                                      !.th[t].got = @ + h.n,
                                      !.gh.fifo[c] = Drop(@, h.n),
                                      !.gh.oob = @ \/ h.oob]
                  IN IF h.copied < x.min_nr /\ x.timeout # "zero"
                        /\ "TIMEDOUT" \notin flags
                     THEN [G1 EXCEPT !.th[t].pc = "blocked"]
                     ELSE Out(G1, h.copied)
                : h \in {HarvestLoop(r, a.nr, tail0, x,
                                     [head |-> head0, copied |-> a.copied_evts,
                                      buf |-> x.buf, fault |-> FALSE, n |-> 0,
                                      oob |-> FALSE])}} : TRUE
      : g \in {G}} : TRUE

\* blockq_wake_one(bq): run the action of the thread parked on bq, if any.
blockq_wake_one(G, bq) ==
    IF G.th[bq].pc = "blocked" THEN io_getevents_bh(G, bq, {"BLOCKED"}) ELSE G

(* ------------------------------ io_setup ------------------------------- *)
FreeIds == {i \in Ids : aio_tab[i] = 0}

\* allocate_u64(p->aio_ids, 1): the id heap hands out the lowest free id.
allocate_id == CHOOSE i \in FreeIds : \A j \in FreeIds : i <= j

FreeMaps == {c \in Ctxs : aio[c].st # "live" /\ ~ring[c].mapped}

\* process_map_physical / allocate: the lowest address not in use.
allocate_map == CHOOSE c \in FreeMaps : \A d \in FreeMaps : c <= d

StartCall(name) == [IdleThread EXCEPT !.call = name]

\* RingSlots without the reserved slot.
RingSlots_noreserve(nr_events) == nr_events

\* "nr_events += 1": the ring is given one slot more than asked for.
RingSlots(nr_events) == nr_events + 1

\* A successful io_setup(nr_events) by thread t.
io_setup(t, nr_events) ==
    /\ plock = "free"
    /\ th[t].pc = "idle"
    /\ gh.setups < cfg.setups
    /\ nr_events > 0
    /\ FreeMaps # {} /\ FreeIds # {}
    /\ LET id == allocate_id
           c == allocate_map
           nr == RingSlots(nr_events)
           g0 == Snapshot.gh
       IN /\ aio' = [aio EXCEPT ![c] = [st |-> "live", nr |-> nr, ongoing_ops |-> 0,
                                        copied_evts |-> 0, bq |-> 0, refcount |-> 1]]
          /\ ring' = [ring EXCEPT ![c] = [mapped |-> TRUE, id |-> id, nr |-> nr,
                                          head |-> 0, tail |-> 0,
                                          magic |-> AIO_RING_MAGIC,
                                          compat_features |-> 1,
                                          incompat_features |-> 0,
                                          events |-> [i \in Slots |-> NoEvent]]]
          /\ aio_tab' = [aio_tab EXCEPT ![id] = c]
          /\ gh' = [g0 EXCEPT !.setups = @ + 1, !.destroyed = @ \ {c},
                              !.last = [t |-> t,
                                        x |-> [StartCall("io_setup") EXCEPT
                                                  !.nr_events = nr_events,
                                                  !.ctx_id = c, !.ret = 0]]]
    /\ UNCHANGED <<th, ops, fdrefs, plock, cfg, aux>>

(* ------------------------- resolving a context ------------------------- *)
\* aio_from_ring_id reserves the refcount of whatever vector_get returned,
\* before the caller tests it for null.  With no table entry that is a store
\* through a null struct pointer while the process lock is held and the
\* caller's fault frame is armed: either the store lands harmlessly and the
\* caller goes on to its null test, or it faults and the caller returns EFAULT
\* from its fault frame with the process lock never released.
NullReserveOutcomes == {"lands", "faults"}

\* The common head of io_submit and io_getevents: read ctx_id->id, look the
\* context up.  x0: the caller's locals; valid: the caller's argument check
\* that follows the lookup; pc1: where the caller continues.
Resolve(t, c, x0, o, valid, pc1) ==
    LET G0 == [Snapshot EXCEPT !.gh.calls = @ + 1, !.th[t] = x0] IN
    IF ~ring[c].mapped
    THEN /\ o = "lands"
         /\ Install(syscall_return(G0, t, -EFAULT))
         /\ UNCHANGED plock
    ELSE LET a == aio_tab[ring[c].id] IN
         IF a = 0
         THEN /\ Install(syscall_return(G0, t,
                             IF o = "lands" THEN -EINVAL ELSE -EFAULT))
              /\ plock' = IF o = "lands" THEN "free" ELSE "stuck"
         ELSE /\ o = "lands"
              /\ LET G1 == [G0 EXCEPT !.aio[a].refcount = @ + 1,
                                      !.th[t].aio = a]
                 IN IF valid THEN Install([G1 EXCEPT !.th[t].pc = pc1])
                    ELSE Install(syscall_return(G1, t, -EINVAL))
              /\ UNCHANGED plock

(* ------------------------------ io_submit ------------------------------ *)
\* io_submit up to its loop: validation and context lookup.  c is the ring
\* pointer the caller passes as ctx_id, nr the length of the iocb array.
io_submit(t, c, nr, o) ==
    /\ plock = "free"
    /\ th[t].pc = "idle"
    /\ gh.calls < cfg.calls
    /\ Resolve(t, c, [StartCall("io_submit") EXCEPT !.sub_nr = nr, !.ctx_id = c], o, TRUE, "submit")
    /\ UNCHANGED <<aio_tab, ops, fdrefs, cfg, aux>>

\* aio_avail_events with "avail < 0" for "avail <= 0".
aio_avail_events_lt(a, r) ==
    LET avail == r.head - r.tail
    IN IF avail < 0 THEN avail + a.nr ELSE avail

\* aio_avail_events
aio_avail_events(a, r) ==
    LET avail == r.head - r.tail
    IN IF avail <= 0 THEN avail + a.nr ELSE avail

\* The checks of iocb_enqueue that come before admission: 0 when they pass.
EnqueuePrecheck(addr) ==
    IF addr = 0 THEN -EFAULT
    ELSE LET iocb == Iocb(addr) IN
         IF iocb.aio_reserved1 # 0 \/ iocb.aio_reserved2 # 0 \/ iocb.aio_buf = 0
            \/ iocb.aio_flags \notin {0, 1}
         THEN -EINVAL
         ELSE IF iocb.aio_fildes \notin Fds THEN -EBADF ELSE 0

\* Admits without the slot kept free ("- 1" dropped).
Admits_noreserve(a, r) == ~(a.ongoing_ops >= aio_avail_events(a, r))

\* The admission test of iocb_enqueue, under the context lock.
Admits(a, r) == ~(a.ongoing_ops >= aio_avail_events(a, r) - 1)

\* The checks of iocb_enqueue after admission: 0 when the operation is handed
\* to the fd's read or write.  oom: get_process_context fails; a read of an
\* unmapped iocb returns through context_set_err.
EnqueuePostcheck(addr, oom) ==
    LET iocb == Iocb(addr)
        f == fdesc_get(iocb.aio_fildes)
    IN IF oom THEN -ENOMEM
       ELSE IF addr \in IocbUnmapped THEN -EFAULT
       ELSE CASE iocb.aio_lio_opcode = "PREAD" ->
                   IF ~f.read THEN -EINVAL
                   ELSE IF ~f.readable THEN -EBADF ELSE 0
              [] iocb.aio_lio_opcode = "PWRITE" ->
                   IF ~f.write THEN -EINVAL
                   ELSE IF ~f.writable THEN -EBADF ELSE 0
              [] OTHER -> -EINVAL

\* io_submit after its loop: drop the reference taken by the lookup, return.
SubmitReturn(G, t) ==
    LET x == G.th[t]
    IN syscall_return(refcount_release(G, x.aio), t, x.io_ops)

\* SubmitBreak returning the error whatever was submitted before it.
SubmitBreak_always(G, t, rv) ==
    SubmitReturn([G EXCEPT !.th[t].rv = rv, !.th[t].io_ops = rv], t)

\* io_submit's handling of a failed iocb_enqueue, and the return.
SubmitBreak(G, t, rv) ==
    SubmitReturn([G EXCEPT !.th[t].rv = rv,
                           !.th[t].io_ops = IF @ = 0 THEN rv ELSE @], t)

\* One iteration of io_submit's loop on the iocb at address addr:
\* iocb_enqueue up to the dispatch (or up to the point where its error path
\* re-takes the lock), and io_submit's return when the loop ends here.
iocb_enqueue(t, addr, oom) ==
    /\ th[t].pc = "submit"
    /\ LET x == th[t]
           c == x.aio
           G0 == [Snapshot EXCEPT !.th[t].iocbp = addr]
           pre == EnqueuePrecheck(addr)
       IN IF x.io_ops >= x.sub_nr
          THEN /\ addr = 0 /\ ~oom
               /\ Install(SubmitReturn(Snapshot, t))
               /\ UNCHANGED <<ops, fdrefs>>
          ELSE IF pre # 0
          THEN /\ ~oom
               /\ Install(SubmitBreak(G0, t, pre))
               /\ UNCHANGED <<ops, fdrefs>>
          ELSE LET iocb == Iocb(addr)
                   fd == iocb.aio_fildes
               IN IF ~Admits(aio[c], ring[c])
                  THEN /\ ~oom
                       /\ Install(SubmitBreak(G0, t, -EAGAIN))
                       /\ UNCHANGED <<ops, fdrefs>>
                  ELSE LET post == EnqueuePostcheck(addr, oom)
                           G1 == [G0 EXCEPT !.aio[c].ongoing_ops = @ + 1,
                                            !.aio[c].refcount = @ + 1]
                       IN /\ fdrefs' = [fdrefs EXCEPT ![fd] = @ + 1]
                          /\ IF post # 0
                             THEN /\ Install([G1 EXCEPT !.th[t].pc = "rollback",
                                                        !.th[t].rv = post])
                                  /\ UNCHANGED ops
                             ELSE LET op == [aio |-> c, fd |-> fd,
                                             data |-> iocb.aio_data, obj |-> addr,
                                             st |-> "inflight", bq |-> 0,
                                             res_fd |-> ResFd(iocb)]
                                      G2 == [G1 EXCEPT !.gh.first = IF @ = 0 THEN addr ELSE @,
                                                       !.gh.pctx = @ + 1,
                                                       !.th[t].io_ops = @ + 1,
                                                       !.th[t].iocbp = 0,
                                                       !.th[t].rv = 0,
                                                       !.th[t].disp = @ + 1]
                                  IN /\ ops' = ops (+) SetToBag({op})
                                     /\ IF x.io_ops + 1 = x.sub_nr
                                        THEN Install(SubmitReturn(G2, t))
                                        ELSE Install(G2)
    /\ UNCHANGED <<aio_tab, plock, cfg, aux>>

\* iocb_enqueue_error that keeps the reference on the fd.
iocb_enqueue_error_nofdput(t) ==
    /\ th[t].pc = "rollback"
    /\ LET x == th[t]
           c == x.aio
           G1 == [Snapshot EXCEPT !.aio[c].ongoing_ops = @ - 1]
           G2 == refcount_release(G1, c)
       IN Install(SubmitBreak(G2, t, x.rv))
    /\ UNCHANGED <<aio_tab, ops, fdrefs, plock, cfg, aux>>

\* iocb_enqueue from its error label on, then io_submit's return.
iocb_enqueue_error(t) ==
    /\ th[t].pc = "rollback"
    /\ LET x == th[t]
           c == x.aio
           fd == Iocb(x.iocbp).aio_fildes
           G1 == [Snapshot EXCEPT !.aio[c].ongoing_ops = @ - 1]
           G2 == refcount_release(G1, c)
       IN /\ Install(SubmitBreak(G2, t, x.rv))
          /\ fdrefs' = [fdrefs EXCEPT ![fd] = @ - 1]
    /\ UNCHANGED <<aio_tab, ops, plock, cfg, aux>>

(* ----------------------------- aio_complete ---------------------------- *)
\* aio_complete under the context lock: the fd's read or write finished
\* operation i and applies the closure to the result.
aio_complete(op) ==
    /\ BagIn(op, ops)
    /\ op.st = "inflight"
    /\ LET c == op.aio
           a == aio[c]
           r == ring[c]
           tail0 == ClampIndex(r.tail, a.nr)
           tail1 == AdvanceIndex(tail0, a.nr)
           ev == [data |-> op.data, obj |-> op.obj, res |-> Result(op.obj)]
       IN /\ aio' = [aio EXCEPT ![c].ongoing_ops = @ - 1]
          /\ ring' = [ring EXCEPT ![c].events[tail0] = ev, ![c].tail = tail1]
          /\ ops' = (ops (-) SetToBag({op}))
                       (+) SetToBag({[op EXCEPT !.st = "published", !.bq = a.bq]})
          /\ gh' = [Snapshot.gh EXCEPT
                        !.fifo[c] = Append(@, [data |-> op.data, obj |-> op.obj,
                                               res |-> Result(op.obj)]),
                        !.late = c \in gh.destroyed]
    /\ UNCHANGED <<aio_tab, th, fdrefs, plock, cfg, aux>>

\* Whether aio_complete writes to the res_fd descriptor it got.
ResfdWrites_never(res) == FALSE

ResfdWrites(res) == res.write /\ res.writable

\* aio_complete after it dropped the context lock: put the fd, write 1 to a
\* writable res_fd, wake the reader whose blockq was captured, drop the
\* closure's reference and, unless the write took it over, the reference on
\* the process context.
aio_complete_wake(op) ==
    /\ BagIn(op, ops)
    /\ op.st = "published"
    /\ LET got == op.res_fd # AIO_RESFD_INVALID /\ op.res_fd \in Fds
           wr == got /\ ResfdWrites(fdesc_get(op.res_fd))
           G1 == IF op.bq # 0 THEN blockq_wake_one(Snapshot, op.bq) ELSE Snapshot
           G2 == refcount_release(G1, op.aio)
           did == <<"put_f">>
                    \o (IF got THEN <<"get_res">> ELSE <<>>)
                    \o (IF wr THEN <<"write_1">>
                        ELSE IF got THEN <<"put_res">> ELSE <<>>)
                    \o (IF op.bq # 0 THEN <<"wake">> ELSE <<>>)
                    \o <<"release_aio">>
                    \o (IF wr THEN <<>> ELSE <<"release_ctx">>)
           efd == [op EXCEPT !.aio = 0, !.fd = op.res_fd, !.st = "efd_write",
                             !.bq = 0]
       IN /\ Install([G2 EXCEPT !.gh.cw = [ran |-> TRUE, res_fd |-> op.res_fd,
                                           did |-> did],
                                !.gh.pctx = IF wr THEN @ ELSE @ - 1])
          /\ fdrefs' = [f \in Fds |->
                           fdrefs[f] - (IF f = op.fd THEN 1 ELSE 0)
                                     + (IF wr /\ f = op.res_fd THEN 1 ELSE 0)]
          /\ ops' = (ops (-) SetToBag({op}))
                       (+) (IF wr THEN SetToBag({efd}) ELSE EmptyBag)
    /\ UNCHANGED <<aio_tab, plock, cfg, aux>>

\* aio_eventfd_complete: the write to the eventfd is done; the value is
\* freed, the eventfd put, the reference on the process context released.
aio_eventfd_complete(e) ==
    /\ BagIn(e, ops)
    /\ e.st = "efd_write"
    /\ ops' = ops (-) SetToBag({e})
    /\ fdrefs' = [fdrefs EXCEPT ![e.fd] = @ - 1]
    /\ gh' = [Snapshot.gh EXCEPT !.pctx = @ - 1]
    /\ UNCHANGED <<aio, ring, aio_tab, th, plock, cfg, aux>>

(* ----------------------------- io_getevents ---------------------------- *)
\* io_getevents up to the point where it takes the context lock.
io_getevents(t, c, min_nr, nr, events, timeout, o) ==
    /\ plock = "free"
    /\ th[t].pc = "idle"
    /\ gh.calls < cfg.calls
    /\ Resolve(t, c,
               [StartCall("io_getevents") EXCEPT
                   !.ctx_id = c, !.kind = "ge", !.min_nr = min_nr, !.nr = nr,
                   !.events = events, !.timeout = timeout],
               o, ~(nr <= 0 \/ nr < min_nr), "ge_enter")
    /\ UNCHANGED <<aio_tab, ops, fdrefs, cfg, aux>>

\* io_getevents from aio_lock on: reset copied_evts, attach the caller's
\* blockq, and run the action for the first time (blockq_check_timeout).
io_getevents_enter(t) ==
    /\ th[t].pc = "ge_enter"
    /\ LET c == th[t].aio
           G1 == [Snapshot EXCEPT !.aio[c].copied_evts = 0, !.aio[c].bq = t]
       IN Install(io_getevents_bh(G1, t, {}))
    /\ UNCHANGED <<aio_tab, ops, fdrefs, plock, cfg, aux>>

\* The timer of a parked io_getevents with a finite timeout expires.
blockq_timeout(t) ==
    /\ th[t].pc = "blocked"
    /\ th[t].timeout = "finite"
    /\ Install(io_getevents_bh(Snapshot, t, {"BLOCKED", "TIMEDOUT"}))
    /\ UNCHANGED <<aio_tab, ops, fdrefs, plock, cfg, aux>>

\* A signal that also gives up the operations in flight.
blockq_nullify_cancel(t) ==
    /\ th[t].pc = "blocked"
    /\ LET c == th[t].aio
           G == io_getevents_bh(Snapshot, t, {"BLOCKED", "NULLIFY"})
       IN Install(IF G.aio[c].st = "live"
                  THEN [G EXCEPT !.aio[c].ongoing_ops = 0] ELSE G)
    /\ UNCHANGED <<aio_tab, ops, fdrefs, plock, cfg, aux>>

\* A signal nullifies the parked action of thread t.
blockq_nullify(t) ==
    /\ th[t].pc = "blocked"
    /\ Install(io_getevents_bh(Snapshot, t, {"BLOCKED", "NULLIFY"}))
    /\ UNCHANGED <<aio_tab, ops, fdrefs, plock, cfg, aux>>

(* ------------------------------ io_destroy ----------------------------- *)
\* io_destroy that leaves the id in the process table.
io_destroy_keepentry(t, c) ==
    /\ plock = "free"
    /\ th[t].pc = "idle"
    /\ gh.calls < cfg.calls
    /\ LET G0 == [Snapshot EXCEPT !.gh.calls = @ + 1,
                                  !.th[t] = [StartCall("io_destroy") EXCEPT
                                                !.ctx_id = c]]
       IN IF ~ring[c].mapped
          THEN Install(syscall_return(G0, t, -EFAULT))
          ELSE LET a == aio_tab[ring[c].id]
               IN IF a = 0
                  THEN Install(syscall_return(G0, t, -EINVAL))
                  ELSE Install(io_destroy_internal(
                           [G0 EXCEPT !.th[t].pc = "destroy", !.th[t].aio = a], t))
    /\ UNCHANGED <<aio_tab, ops, fdrefs, plock, cfg, aux>>

io_destroy(t, c) ==
    /\ plock = "free"
    /\ th[t].pc = "idle"
    /\ gh.calls < cfg.calls
    /\ LET G0 == [Snapshot EXCEPT !.gh.calls = @ + 1,
                                  !.th[t] = [StartCall("io_destroy") EXCEPT
                                                !.ctx_id = c]]
       IN IF ~ring[c].mapped
          THEN /\ Install(syscall_return(G0, t, -EFAULT))
               /\ UNCHANGED aio_tab
          ELSE LET id == ring[c].id
                   a == aio_tab[id]
               IN IF a = 0
                  THEN /\ Install(syscall_return(G0, t, -EINVAL))
                       /\ UNCHANGED aio_tab
                  ELSE /\ aio_tab' = [aio_tab EXCEPT ![id] = 0]
                       /\ Install(io_destroy_internal(
                              [G0 EXCEPT !.th[t].pc = "destroy", !.th[t].aio = a], t))
    /\ UNCHANGED <<ops, fdrefs, plock, cfg, aux>>

(* ------------------------------- the system ---------------------------- *)
Timeouts == {"zero", "finite", "inf"}

Next ==
    \/ \E t \in Threads, n \in 1..MaxEvents : io_setup(t, n)
    \/ \E t \in Threads, c \in Ctxs, n \in cfg.batch, o \in NullReserveOutcomes :
          io_submit(t, c, n, o)
    \/ \E t \in Threads, addr \in cfg.addrs, oom \in BOOLEAN : iocb_enqueue(t, addr, oom)
    \/ \E t \in Threads : iocb_enqueue_error(t)
    \/ \E op \in BagToSet(ops) : aio_complete(op)
    \/ \E op \in BagToSet(ops) : aio_complete_wake(op)
    \/ \E t \in Threads, c \in Ctxs, m \in cfg.nrarg, n \in cfg.nrarg,
          to \in Timeouts, o \in NullReserveOutcomes :
          io_getevents(t, c, m, n, "ok", to, o)
    \/ \E t \in Threads : io_getevents_enter(t)
    \/ \E t \in Threads : blockq_timeout(t)
    \/ \E t \in Threads : blockq_nullify(t)
    \/ \E t \in Threads, c \in Ctxs : io_destroy(t, c)

Spec == Init /\ [][Next]_vars

\* The program submits iocbs that are rejected after admission and iocbs
\* with IOCB_FLAG_RESFD.
InitFd ==
    /\ Start
    /\ cfg = [addrs |-> {1, 4, 6, 7, 8, 9, 10, 11}, calls |-> MaxCalls,
              batch |-> 1..MaxBatch, nrarg |-> {2}, cpus |-> {},
              setups |-> MaxSetups]

NextFd ==
    \/ Next
    \/ \E e \in BagToSet(ops) : aio_eventfd_complete(e)

SpecFd == InitFd /\ [][NextFd]_vars

\* The same program with one more system call.
Init3 ==
    /\ Start
    /\ cfg = [addrs |-> {0, 1, 3, 4, 5, 6}, calls |-> MaxCalls + 1,
              batch |-> 0..MaxBatch, nrarg |-> 0..MaxNrArg,
              cpus |-> {},
              setups |-> MaxSetups]

Spec3 == Init3 /\ [][Next]_vars

\* The user program also hands io_getevents arrays whose pages are missing.
InitFault ==
    /\ Start
    /\ cfg = [addrs |-> {1}, calls |-> MaxCalls,
              batch |-> 1..MaxBatch, nrarg |-> 1..MaxNrArg,
              cpus |-> {},
              setups |-> MaxSetups]

NextFault ==
    \/ Next
    \/ \E t \in Threads, c \in Ctxs, m \in cfg.nrarg, n \in cfg.nrarg,
          e \in {"bad", "bad1"}, to \in Timeouts :
          io_getevents(t, c, m, n, e, to, "lands")

SpecFault == InitFault /\ [][NextFault]_vars

\* The user program sets up a second context after it destroyed the first,
\* and goes on using the first one's ring pointer.
InitReuse ==
    /\ Start
    /\ cfg = [addrs |-> {1}, calls |-> MaxCalls + 1,
              batch |-> {1}, nrarg |-> {1}, cpus |-> {},
              setups |-> MaxSetups + 1]

SpecReuse == InitReuse /\ [][Next]_vars

\* Scheduling: an operation handed to an fd completes and its callback runs
\* to its end; a thread inside a system call keeps running; the timer of a
\* parked thread fires.  Nothing obliges the program to make a further system
\* call or a signal to arrive.
Fairness ==
    /\ WF_vars(\E op \in BagToSet(ops) : aio_complete(op))
    /\ WF_vars(\E op \in BagToSet(ops) : aio_complete_wake(op))
    /\ WF_vars(\E t \in Threads, addr \in cfg.addrs, oom \in BOOLEAN :
                  iocb_enqueue(t, addr, oom))
    /\ WF_vars(\E t \in Threads : iocb_enqueue_error(t))
    /\ WF_vars(\E t \in Threads : io_getevents_enter(t))
    /\ WF_vars(\E t \in Threads : blockq_timeout(t))

\* The user program submits reads of one iocb only.
InitFair ==
    /\ Start
    /\ cfg = [addrs |-> {1}, calls |-> MaxCalls,
              batch |-> 0..MaxBatch, nrarg |-> 0..MaxNrArg,
              cpus |-> {},
              setups |-> MaxSetups]

FairSpec == InitFair /\ [][Next]_vars /\ Fairness

\* The user program submits two different iocbs, a read and a write.
InitOrder ==
    /\ Start
    /\ cfg = [addrs |-> {1, 2}, calls |-> MaxCalls + 1,
              batch |-> 1..MaxBatch, nrarg |-> 1..MaxNrArg, cpus |-> {},
              setups |-> MaxSetups]

SpecOrder == InitOrder /\ [][Next]_vars

\* The user program makes one more system call, submits one iocb at a time
\* and asks io_getevents for exactly one event.
InitFair3 ==
    /\ Start
    /\ cfg = [addrs |-> {1}, calls |-> MaxCalls + 1,
              batch |-> {1}, nrarg |-> {1}, cpus |-> {},
              setups |-> MaxSetups]

FairSpec3 == InitFair3 /\ [][Next]_vars /\ Fairness

(* ------------- aio_complete and io_getevents_bh, store by store -------- *)
\* The ring's size in the statement-level steps.
MemNr == RingSlots(MaxEvents)

\* A spinlock that is handed out whether it is held or not.
LockAvailable_always(lock) == TRUE

\* aio_lock: the spinlock is taken only when nobody holds it.
LockAvailable(lock) == lock = 0

\* iocb_enqueue: aio_lock(aio) before the admission test.
enq_lock ==
    /\ mem.s = "idle"
    /\ \E a \in Writers : mem.w[a].pc = "none"
    /\ LockAvailable(mem.lock)
    /\ mem' = [mem EXCEPT !.lock = Submitter, !.s = "admit"]
    /\ UNCHANGED aiovars

\* iocb_enqueue: the admission test and "aio->ongoing_ops++"; the operation
\* admitted is handed to the fd, which will apply its closure.
enq_admit ==
    /\ mem.s = "admit"
    /\ LET a == CHOOSE b \in Writers :
                   mem.w[b].pc = "none" /\ \A d \in Writers : mem.w[d].pc = "none" => b <= d
       IN mem' = IF Admits([ongoing_ops |-> mem.ongoing_ops, nr |-> MemNr],
                           [head |-> mem.head, tail |-> mem.tail])
                 THEN [mem EXCEPT !.ongoing_ops = @ + 1, !.w[a].pc = "start",
                                  !.s = "unlock"]
                 ELSE [mem EXCEPT !.s = "unlock"]
    /\ UNCHANGED aiovars

\* iocb_enqueue: aio_unlock(aio).
enq_unlock ==
    /\ mem.s = "unlock"
    /\ mem' = [mem EXCEPT !.lock = IF @ = Submitter THEN 0 ELSE @, !.s = "idle"]
    /\ UNCHANGED aiovars

\* aio_complete: aio_lock(aio).
ac_lock(a) ==
    /\ mem.w[a].pc = "start"
    /\ LockAvailable(mem.lock)
    /\ mem' = [mem EXCEPT !.lock = a, !.w[a].pc = "tail"]
    /\ UNCHANGED aiovars

\* aio_complete: "aio->ongoing_ops--; tail = ring->tail; if (tail >=
\* aio->nr) tail = 0".
ac_load_tail(a) ==
    /\ mem.w[a].pc = "tail"
    /\ mem' = [mem EXCEPT !.ongoing_ops = @ - 1,
                          !.w[a].tail = ClampIndex(mem.tail, MemNr),
                          !.w[a].pc = "data"]
    /\ UNCHANGED aiovars

\* aio_complete: the three stores into ring->events[tail], one per step.
ac_store_field(a) ==
    /\ mem.w[a].pc \in {"data", "obj", "res"}
    /\ LET f == mem.w[a].pc
           next == CASE f = "data" -> "obj" [] f = "obj" -> "res"
                     [] f = "res" -> "advance"
       IN mem' = [mem EXCEPT !.ev[mem.w[a].tail][f] = a, !.w[a].pc = next]
    /\ UNCHANGED aiovars

\* aio_complete: "if (++tail == aio->nr) tail = 0; ring->tail = tail".
ac_store_tail(a) ==
    /\ mem.w[a].pc = "advance"
    /\ mem' = [mem EXCEPT !.tail = AdvanceIndex(mem.w[a].tail, MemNr),
                          !.w[a].pc = "unlock"]
    /\ UNCHANGED aiovars

\* aio_complete: aio_unlock(aio).
ac_unlock(a) ==
    /\ mem.w[a].pc = "unlock"
    /\ mem' = [mem EXCEPT !.lock = IF @ = a THEN 0 ELSE @, !.w[a].pc = "done"]
    /\ UNCHANGED aiovars

\* io_getevents_bh: the lock is taken (by io_getevents, or by the action
\* itself when it runs with BLOCKQ_ACTION_BLOCKED).
bh_lock ==
    /\ mem.r.pc = "idle"
    /\ LockAvailable(mem.lock)
    /\ mem' = [mem EXCEPT !.lock = Reader, !.r.pc = "load"]
    /\ UNCHANGED aiovars

\* io_getevents_bh: load and clamp head and tail.
bh_load ==
    /\ mem.r.pc = "load"
    /\ mem' = [mem EXCEPT !.r.head = ClampIndex(mem.head, MemNr),
                          !.r.tail = ClampIndex(mem.tail, MemNr),
                          !.r.pc = "copy"]
    /\ UNCHANGED aiovars

\* io_getevents_bh: one iteration of the copy loop, or its end.
bh_copy ==
    /\ mem.r.pc = "copy"
    /\ mem' = IF mem.r.head # mem.r.tail
              THEN [mem EXCEPT !.r.head = AdvanceIndex(@, MemNr)]
              ELSE [mem EXCEPT !.r.pc = "store"]
    /\ UNCHANGED aiovars

\* io_getevents_bh: "ring->head = head; ring->tail = tail", then aio_unlock.
bh_store ==
    /\ mem.r.pc = "store"
    /\ mem' = [mem EXCEPT !.head = mem.r.head, !.tail = mem.r.tail,
                          !.lock = IF @ = Reader THEN 0 ELSE @,
                          !.r.pc = "idle"]
    /\ UNCHANGED aiovars

NextLock ==
    \/ enq_lock
    \/ enq_admit
    \/ enq_unlock
    \/ \E a \in Writers : ac_lock(a)
    \/ \E a \in Writers : ac_load_tail(a)
    \/ \E a \in Writers : ac_store_field(a)
    \/ \E a \in Writers : ac_store_tail(a)
    \/ \E a \in Writers : ac_unlock(a)
    \/ bh_lock
    \/ bh_load
    \/ bh_copy
    \/ bh_store

SpecLock == Init /\ [][NextLock]_vars

\* The arguments of io_getevents in the lock-grain steps: min_nr, nr, the
\* timeout (none given: "inf") and whether an events array is passed.
LkArgs == {<<1, 1, "inf", TRUE>>, <<1, 1, "finite", TRUE>>,
           <<1, 1, "zero", TRUE>>, <<0, 1, "inf", FALSE>>}

(* ------------- one context at the grain of its lock operations --------- *)
\* The ring of the context: io_setup(1).
LkNr == RingSlots(1)

LkSetup == 5

\* A u32 is kept as its signed reading: -1 is 2^32 - 1.
U32Dec(x) == x - 1

\* a >= b on two u32 values.
U32Ge(a, b) == IF (a < 0) = (b < 0) THEN a >= b ELSE a < 0

\* copied_evts < min_nr, min_nr a long that holds a u32.
LtLong(copied, min_nr) == IF min_nr < 0 THEN TRUE ELSE copied < min_nr

\* The state a step starts from: the history of the previous step is gone.
LkNow == [lk EXCEPT !.bad = {}]

LkStep(L) == ~lk.crashed /\ lk' = L /\ UNCHANGED nonlk

\* A write of who to a guarded field: the history notes a writer that does
\* not hold the lock.
Guarded(L, who, field) ==
    IF L.lock = who THEN L ELSE [L EXCEPT !.bad = @ \cup {field}]

\* spin_unlock: the lock word is cleared whoever holds it.
aio_unlock(L, who) ==
    [L EXCEPT !.lock = 0,
              !.bad = IF L.lock = who THEN @ ELSE @ \cup {"release"}]

\* The fields that the code reads through aio->ring and aio->nr are not
\* written yet by io_setup.
Wild(L) == L.s < 5

\* aio_alloc: the context enters the process table; its memory comes from
\* allocate() and the ring's from fresh pages, so that the words io_setup has
\* not written yet hold anything.
su_alloc(l0, b0, o0, h0, t0) ==
    /\ lk.s = 0
    /\ LkStep([LkNow EXCEPT !.tab = "set", !.s = 1, !.lock = l0, !.bq = b0,
                         !.ongoing_ops = o0, !.head = h0, !.tail = t0])

\* io_setup: "aio->vh = ...; aio->ring = ctx".
su_ring ==
    /\ lk.s = 1
    /\ LkStep([LkNow EXCEPT !.s = 2])

\* io_setup: spin_lock_init(&aio->lock).
su_lock_init ==
    /\ lk.s = 2
    /\ LkStep([LkNow EXCEPT !.s = 3, !.lock = 0])

\* io_setup: "aio->bq = 0".
su_bq ==
    /\ lk.s = 3
    /\ LkStep([Guarded(LkNow, LkSetup, "bq") EXCEPT !.s = 4, !.bq = 0])

\* io_setup: "aio->nr = nr_events; aio->ongoing_ops = 0".
su_nr_ops ==
    /\ lk.s = 4
    /\ LkStep([Guarded(LkNow, LkSetup, "ongoing_ops") EXCEPT
                  !.s = 5, !.ongoing_ops = 0])

\* io_setup: "ctx->nr = nr_events; ctx->head = ctx->tail = 0" and the rest of
\* the ring header; the ring pointer is stored through ctx_idp.
su_header ==
    /\ lk.s = 5
    /\ LkStep([Guarded(Guarded(LkNow, LkSetup, "head"), LkSetup, "tail") EXCEPT
                  !.s = 6, !.head = 0, !.tail = 0])

\* io_getevents up to aio_lock: the arguments are valid and the id names the
\* context.
lk_getevents(r, min_nr, nr, tmo, ev) ==
    /\ lk.r[r].pc = "idle"
    /\ lk.tab = "set"
    /\ lk.calls < MaxLkCalls
    /\ nr > 0 /\ nr >= min_nr
    /\ LkStep([LkNow EXCEPT !.calls = @ + 1,
                         !.r[r] = [IdleReader EXCEPT
                                      !.pc = "lock", !.kind = "getevents",
                                      !.min_nr = min_nr, !.nr = nr,
                                      !.tmo = tmo, !.ev = ev]])

\* io_destroy up to io_destroy_internal's aio_lock: the table's entry is
\* cleared under the process lock.
lk_destroy(r) ==
    /\ lk.r[r].pc = "idle"
    /\ lk.tab = "set"
    /\ lk.calls < MaxLkCalls
    /\ LkStep([LkNow EXCEPT !.calls = @ + 1, !.tab = "cleared",
                         !.r[r] = [IdleReader EXCEPT
                                      !.pc = "lock", !.kind = "destroy"]])

\* aio_lock(aio) in io_getevents and in io_destroy_internal.
lk_lock(r) ==
    /\ lk.r[r].pc = "lock"
    /\ LockAvailable(lk.lock)
    /\ LkStep([LkNow EXCEPT !.lock = r, !.r[r].pc = "init"])

\* io_getevents: "aio->copied_evts = 0; aio->bq = current->thread_bq", then
\* blockq_check_timeout applies the action with no flag.
\* io_destroy_internal: the same with min_nr = nr = ongoing_ops, no events
\* array and no timeout when operations are going on; else aio_unlock and
\* the completion.
lk_init(r) ==
    /\ lk.r[r].pc = "init"
    /\ LET x == lk.r[r]
           L1 == Guarded(Guarded(LkNow, r, "copied_evts"), r, "bq")
           L2 == [L1 EXCEPT !.copied_evts = 0, !.bq = r]
       IN IF x.kind = "getevents"
          THEN LkStep([L2 EXCEPT !.r[r].pc = "enter", !.r[r].flags = {}])
          ELSE IF lk.ongoing_ops # 0
          THEN LkStep([L2 EXCEPT !.r[r].pc = "enter", !.r[r].flags = {},
                                 !.r[r].min_nr = lk.ongoing_ops,
                                 !.r[r].nr = lk.ongoing_ops,
                                 !.r[r].ev = FALSE, !.r[r].tmo = "inf"])
          ELSE LkStep([aio_unlock(LkNow, r) EXCEPT !.r[r].pc = "complete"])

\* io_getevents_bh up to its first test: aio_lock when the action is applied
\* with BLOCKQ_ACTION_BLOCKED, and the test of BLOCKQ_ACTION_NULLIFY.
bh_enter(r) ==
    /\ lk.r[r].pc = "enter"
    /\ LET x == lk.r[r]
           L1 == IF "BLOCKED" \in x.flags THEN [LkNow EXCEPT !.lock = r]
                 ELSE IF lk.lock = r THEN LkNow
                 ELSE [LkNow EXCEPT !.bad = @ \cup {"enter"}]
       IN /\ "BLOCKED" \in x.flags => LockAvailable(lk.lock)
          /\ LkStep([L1 EXCEPT !.r[r].rel = 0,
                               !.r[r].pc = IF "NULLIFY" \in x.flags
                                           THEN "out" ELSE "harvest"])

\* io_getevents_bh from the load of head and tail to the re-block or to the
\* out label.  fault: the copy to the events array faults; crash: a read
\* through a pointer or with a size that io_setup has not written yet goes
\* wrong.
bh_harvest(r, fault, crash) ==
    /\ lk.r[r].pc = "harvest"
    /\ crash => Wild(lk)
    /\ LET x == lk.r[r]
           head == ClampIndex(lk.head, LkNr)
           tail == ClampIndex(lk.tail, LkNr)
           copied == IF head # tail THEN lk.copied_evts + 1 ELSE lk.copied_evts
           L1 == Guarded(Guarded(Guarded(LkNow, r, "copied_evts"), r, "head"),
                         r, "tail")
           L2 == [L1 EXCEPT !.copied_evts = copied, !.head = tail, !.tail = tail]
       IN /\ fault => x.ev /\ head # tail /\ ~crash
          /\ IF crash THEN LkStep([LkNow EXCEPT !.crashed = TRUE])
             ELSE IF fault THEN LkStep([LkNow EXCEPT !.r[r].pc = "out"])
             ELSE IF LtLong(copied, x.min_nr) /\ x.tmo # "zero"
                     /\ "TIMEDOUT" \notin x.flags
             THEN LkStep([aio_unlock(L2, r) EXCEPT
                             !.r[r].pc = "blocked", !.r[r].rel = @ + 1])
             ELSE LkStep([L2 EXCEPT !.r[r].pc = "out"])

\* io_getevents_bh from the out label: "aio->bq = 0; aio_unlock(aio)" and the
\* completion: syscall_io_complete for io_getevents, io_destroy_complete for
\* io_destroy.
bh_out(r) ==
    /\ lk.r[r].pc = "out"
    /\ LET x == lk.r[r]
           L1 == [Guarded(LkNow, r, "bq") EXCEPT !.bq = 0]
           L2 == aio_unlock(L1, r)
           L3 == IF x.rel = 0 THEN L2
                 ELSE [L2 EXCEPT !.bad = @ \cup {"released twice"}]
       IN IF x.kind = "getevents"
          THEN LkStep([L3 EXCEPT !.r[r] = IdleReader])
          ELSE LkStep([L3 EXCEPT !.r[r].pc = "complete"])

\* io_destroy_complete: operations still going on send it back to
\* io_destroy_internal.
lk_destroy_complete(r) ==
    /\ lk.r[r].pc = "complete"
    /\ IF lk.ongoing_ops # 0
       THEN LkStep([LkNow EXCEPT !.r[r].pc = "lock"])
       ELSE LkStep([LkNow EXCEPT !.r[r] = IdleReader])

\* The timer of a blocked io_getevents fires: the action is applied with
\* BLOCKQ_ACTION_BLOCKED | BLOCKQ_ACTION_TIMEDOUT.
lk_timeout(r) ==
    /\ lk.r[r].pc = "blocked"
    /\ lk.r[r].tmo = "finite"
    /\ LkStep([LkNow EXCEPT !.r[r].pc = "enter",
                         !.r[r].flags = {"BLOCKED", "TIMEDOUT"}])

\* A signal interrupts the blocked thread: the action is applied with
\* BLOCKQ_ACTION_BLOCKED | BLOCKQ_ACTION_NULLIFY.
lk_nullify(r) ==
    /\ lk.r[r].pc = "blocked"
    /\ LkStep([LkNow EXCEPT !.r[r].pc = "enter",
                         !.r[r].flags = {"BLOCKED", "NULLIFY"}])

\* iocb_enqueue: aio_lock(aio) before the admission test.
lk_enq_lock ==
    /\ lk.e = "idle"
    /\ lk.tab = "set"
    /\ lk.calls < MaxLkCalls
    /\ LockAvailable(lk.lock)
    /\ LkStep([LkNow EXCEPT !.calls = @ + 1, !.lock = LkSubmitter, !.e = "admit"])

\* iocb_enqueue: the admission test, "aio->ongoing_ops++", aio_unlock; the
\* operation is handed to the fd, or rejected.
lk_enq_admit(reject, crash) ==
    /\ lk.e = "admit"
    /\ crash => Wild(lk) /\ ~reject
    /\ LET avail == aio_avail_events([nr |-> LkNr],
                                     [head |-> lk.head, tail |-> lk.tail])
           full == U32Ge(lk.ongoing_ops, avail - 1)
           L1 == [Guarded(LkNow, LkSubmitter, "ongoing_ops") EXCEPT
                     !.ongoing_ops = @ + 1]
       IN IF crash THEN LkStep([LkNow EXCEPT !.crashed = TRUE])
          ELSE IF full
          THEN /\ ~reject
               /\ LkStep([aio_unlock(LkNow, LkSubmitter) EXCEPT !.e = "idle"])
          ELSE IF reject
          THEN LkStep([aio_unlock(L1, LkSubmitter) EXCEPT !.e = "error"])
          ELSE LkStep([aio_unlock(L1, LkSubmitter) EXCEPT
                          !.e = "idle", !.inflight = @ + 1])

\* iocb_enqueue, error label: aio_lock(aio).
lk_enq_error_lock ==
    /\ lk.e = "error"
    /\ LockAvailable(lk.lock)
    /\ LkStep([LkNow EXCEPT !.lock = LkSubmitter, !.e = "undo"])

\* iocb_enqueue, error label: "aio->ongoing_ops--; aio_unlock(aio)".
lk_enq_error ==
    /\ lk.e = "undo"
    /\ LkStep([aio_unlock([Guarded(LkNow, LkSubmitter, "ongoing_ops") EXCEPT
                              !.ongoing_ops = U32Dec(@)], LkSubmitter)
                  EXCEPT !.e = "idle"])

\* aio_complete: aio_lock(aio).
lk_complete_lock ==
    /\ lk.w = "idle"
    /\ lk.inflight > 0
    /\ LockAvailable(lk.lock)
    /\ LkStep([LkNow EXCEPT !.lock = LkCompleter, !.w = "publish"])

\* aio_complete under the lock, and aio_unlock: "aio->ongoing_ops--", the
\* event and the tail, "bq = aio->bq; if (bq) blockq_reserve(bq)".
lk_complete(crash) ==
    /\ lk.w = "publish"
    /\ crash => Wild(lk) \/ lk.bq = Junk
    /\ lk.bq = Junk => crash
    /\ LET tail == AdvanceIndex(ClampIndex(lk.tail, LkNr), LkNr)
           L1 == Guarded(Guarded(LkNow, LkCompleter, "ongoing_ops"),
                         LkCompleter, "tail")
           L2 == [L1 EXCEPT !.ongoing_ops = U32Dec(@), !.tail = tail,
                            !.wbq = lk.bq]
       IN IF crash THEN LkStep([LkNow EXCEPT !.crashed = TRUE])
          ELSE LkStep([aio_unlock(L2, LkCompleter) EXCEPT !.w = "wake"])

\* aio_complete after the unlock: blockq_wake_one applies the action of the
\* thread waiting on the captured blockq with BLOCKQ_ACTION_BLOCKED.
lk_complete_wake ==
    /\ lk.w = "wake"
    /\ LET b == lk.wbq
           L1 == [LkNow EXCEPT !.w = "idle", !.wbq = 0, !.inflight = @ - 1]
       IN IF b \in LkReaders /\ lk.r[b].pc = "blocked"
          THEN LkStep([L1 EXCEPT !.r[b].pc = "enter",
                                 !.r[b].flags = {"BLOCKED"}])
          ELSE LkStep(L1)

InitLkSpec ==
    /\ Start
    /\ cfg = [addrs |-> {}, calls |-> 0, batch |-> {}, nrarg |-> {},
              cpus |-> {},
              setups |-> MaxSetups]

NextLk ==
    \/ \E l0 \in {0, Junk}, b0 \in {0, Junk}, o0 \in {0, 1},
          h0 \in {0, 1}, t0 \in {0} : su_alloc(l0, b0, o0, h0, t0)
    \/ su_ring
    \/ su_lock_init
    \/ su_bq
    \/ su_nr_ops
    \/ su_header
    \/ \E r \in LkReaders, a \in LkArgs : lk_getevents(r, a[1], a[2], a[3], a[4])
    \/ \E r \in LkReaders : lk_destroy(r)
    \/ \E r \in LkReaders : lk_lock(r)
    \/ \E r \in LkReaders : lk_init(r)
    \/ \E r \in LkReaders : bh_enter(r)
    \/ \E r \in LkReaders, fault \in BOOLEAN, crash \in BOOLEAN :
          bh_harvest(r, fault, crash)
    \/ \E r \in LkReaders : bh_out(r)
    \/ \E r \in LkReaders : lk_destroy_complete(r)
    \/ \E r \in LkReaders : lk_timeout(r)
    \/ \E r \in LkReaders : lk_nullify(r)
    \/ lk_enq_lock
    \/ \E reject \in BOOLEAN, crash \in BOOLEAN : lk_enq_admit(reject, crash)
    \/ lk_enq_error_lock
    \/ lk_enq_error
    \/ lk_complete_lock
    \/ \E crash \in BOOLEAN : lk_complete(crash)
    \/ lk_complete_wake

SpecLk == InitLkSpec /\ [][NextLk]_vars

(* ------------------- PCI configuration and BAR accessors --------------- *)
RECURSIVE BitAnd(_, _)
\* a & b on non-negative integers.
BitAnd(a, b) ==
    IF a = 0 \/ b = 0 THEN 0
    ELSE (a % 2) * (b % 2) + 2 * BitAnd(a \div 2, b \div 2)

\* reg & mask where mask is bytes - 1 (all ones when bytes is 0).
And32(a, mask) == IF mask = -1 THEN a ELSE BitAnd(a, mask)

\* (unsigned)x <= m: a negative x converts to a value above every m used.
UnsignedLe(x, m) == 0 <= x /\ x <= m

\* The 32-bit value written to CONFIG_ADDRESS, as <<high half, low half>>:
\* (1U << 31) | (bus << 16) | (slot << 11) | (function << 8) | (reg & ~0x03).
ConfAddr(dev, reg) ==
    <<32768 + dev.bus,
      dev.slot * 2048 + dev.function * 256 + (reg - BitAnd(reg, 3))>>

\* The test of pci_cfgenable, in the order of its && chain.
CfgEnableTest(dev, reg, bytes) ==
    /\ dev.bus <= PCI_BUSMAX
    /\ dev.slot <= PCI_SLOTMAX
    /\ dev.function <= PCI_FUNCMAX
    /\ UnsignedLe(reg, PCI_REGMAX)
    /\ bytes # 3
    /\ UnsignedLe(bytes, 4)
    /\ And32(reg, bytes - 1) = 0

\* pci_cfgenable: whether CONFIG_ADDRESS is written, with what, and the data
\* port returned (0: none).
pci_cfgenable(dev, reg, bytes) ==
    IF CfgEnableTest(dev, reg, bytes)
    THEN [out |-> TRUE, addr |-> ConfAddr(dev, reg),
          port |-> CONF1_DATA_PORT + BitAnd(reg, 3)]
    ELSE [out |-> FALSE, addr |-> <<>>, port |-> 0]

\* irq_disable_save on CPU record x: the flags are saved, interrupts off.
irq_disable_save(x) ==
    [x EXCEPT !.flags = x.ifl, !.entry = x.ifl, !.ifl = FALSE]

\* irq_restore(flags): the interrupt-enable flag is the saved one again.
irq_restore(x) == [x EXCEPT !.ifl = x.flags]

\* One access to a port or to BAR memory, as the history keeps it.
IoRec(x, op, port, w, val) ==
    [op |-> op, port |-> port, w |-> w, val |-> val, ifl |-> x.ifl]

\* The arguments (reg, bytes) the configuration accessors are called with.
CfgArgs ==
    {<<0, 4>>, <<1, 1>>, <<2, 2>>, <<7, 1>>, <<252, 4>>, <<255, 1>>,
     <<1, 2>>, <<6, 4>>, <<0, 0>>, <<4, 0>>, <<0, 3>>, <<3, 3>>,
     <<0, 5>>, <<0, 8>>, <<256, 1>>, <<-1, 1>>, <<0, -1>>}

PciStep(c, x, addr, last) ==
    /\ pci' = [pci EXCEPT !.cpu[c] = x, !.addr = addr, !.last = last]
    /\ UNCHANGED nonpci

\* Other kernel code on CPU c enables or disables interrupts.
cpu_set_if(c, b) ==
    /\ c \in cfg.cpus
    /\ pci.cpu[c].pc = "idle"
    /\ pci.cpu[c].ifl # b
    /\ PciStep(c, [pci.cpu[c] EXCEPT !.ifl = b], pci.addr, NoPciLast)

\* Entry of a configuration accessor up to and including irq_disable_save.
CfgEntry(c, fn, d, reg, bytes) ==
    /\ c \in cfg.cpus
    /\ pci.cpu[c].pc = "idle"
    /\ PciStep(c, irq_disable_save(
                     [pci.cpu[c] EXCEPT !.pc = "enable", !.fn = fn, !.dev = d,
                                        !.reg = reg, !.bytes = bytes,
                                        !.port = 0, !.data = AllOnes,
                                        !.io = <<>>]),
               pci.addr, NoPciLast)

pci_cfgread_noirq(c, d, reg, bytes) ==
    /\ c \in cfg.cpus
    /\ pci.cpu[c].pc = "idle"
    /\ PciStep(c, [pci.cpu[c] EXCEPT !.pc = "enable", !.fn = "cfgread",
                                      !.dev = d, !.reg = reg, !.bytes = bytes,
                                      !.port = 0, !.data = AllOnes,
                                      !.io = <<>>, !.flags = pci.cpu[c].ifl,
                                      !.entry = pci.cpu[c].ifl],
               pci.addr, NoPciLast)

pci_cfgread(c, d, reg, bytes) == CfgEntry(c, "cfgread", d, reg, bytes)

pci_cfgwrite(c, d, reg, bytes) == CfgEntry(c, "cfgwrite", d, reg, bytes)

\* port = pci_cfgenable(dev, reg, bytes) in either accessor.
cfg_enable(c) ==
    LET x == pci.cpu[c]
        e == pci_cfgenable(PciDev(x.dev), x.reg, x.bytes)
    IN /\ x.pc = "enable"
       /\ PciStep(c,
                  [x EXCEPT !.pc = "access", !.port = e.port,
                            !.io = IF e.out
                                   THEN Append(@, IoRec(x, "out", CONF1_ADDR_PORT,
                                                        4, e.addr))
                                   ELSE @],
                  IF e.out THEN e.addr ELSE pci.addr,
                  NoPciLast)

\* if (port != 0) switch (bytes): in8/in16/in32 or out8/out16/out32 on the
\* data port; what is read is the register CONFIG_ADDRESS selects then.
cfg_access(c) ==
    LET x == pci.cpu[c]
        acc == x.port # 0 /\ x.bytes \in {1, 2, 4}
        op == IF x.fn = "cfgread" THEN "in" ELSE "out"
    IN /\ x.pc = "access"
       /\ PciStep(c,
                  [x EXCEPT !.pc = "restore",
                            !.data = IF acc /\ x.fn = "cfgread"
                                     THEN <<pci.addr, x.port - CONF1_DATA_PORT>>
                                     ELSE @,
                            !.io = IF acc
                                   THEN Append(@, IoRec(x, op, x.port, x.bytes,
                                                        pci.addr))
                                   ELSE @],
                  pci.addr, NoPciLast)

\* Entry of pci_bar_read_N / pci_bar_write_N (N = 1, 2, 4, 8) on a memory or
\* an I/O port BAR, up to and including irq_disable_save.
BarEntry(c, fn, n, type) ==
    /\ c \in cfg.cpus
    /\ pci.cpu[c].pc = "idle"
    /\ PciStep(c, irq_disable_save(
                     [pci.cpu[c] EXCEPT !.pc = "bar", !.fn = fn, !.bar = type,
                                        !.bytes = n, !.dev = 1, !.reg = 0,
                                        !.port = 0, !.data = AllOnes,
                                        !.io = <<>>]),
               pci.addr, NoPciLast)

pci_bar_read(c, n, type) == BarEntry(c, "bar_read", n, type)

pci_bar_write(c, n, type) == BarEntry(c, "bar_write", n, type)

\* The access of a BAR accessor: a load or store at vaddr + offset for a
\* memory BAR, in8 .. in64 or out8 .. out64 at addr + offset for an I/O port
\* BAR.
bar_access(c) ==
    LET x == pci.cpu[c]
        op == IF x.fn = "bar_read" THEN "in" ELSE "out"
    IN /\ x.pc = "bar"
       /\ PciStep(c,
                  [x EXCEPT !.pc = "restore",
                            !.data = IF x.fn = "bar_read" THEN <<x.bar>> ELSE @,
                            !.io = Append(@, IoRec(x, op, x.bar, x.bytes, <<>>))],
                  pci.addr, NoPciLast)

\* irq_restore(flags) and the return of the accessor.
pci_return(c) ==
    LET x == irq_restore(pci.cpu[c])
    IN /\ pci.cpu[c].pc = "restore"
       /\ PciStep(c, IdleCpu(x.ifl), pci.addr,
                  [ran |-> TRUE, cpu |-> c, x |-> x])

\* The address an interrupt handler's configuration access leaves in
\* CONFIG_ADDRESS: register 0 of the device in slot 4.
IsrAddr == ConfAddr([bus |-> 0, slot |-> 4, function |-> 0], 0)

\* CPU c takes an interrupt (only with interrupts enabled); the handler reads
\* a configuration register of its own device.
interrupt(c) ==
    LET x == pci.cpu[c]
    IN /\ c \in cfg.cpus
       /\ x.ifl
       /\ pci.addr # IsrAddr \/ x.pc # "idle"
       /\ PciStep(c,
                  IF x.pc = "idle" THEN x
                  ELSE [x EXCEPT !.io = Append(@, IoRec(x, "intr", CONF1_ADDR_PORT,
                                                        4, IsrAddr))],
                  IsrAddr, NoPciLast)

InitPciSpec ==
    /\ Start
    /\ cfg = [addrs |-> {}, calls |-> 0, batch |-> {}, nrarg |-> {},
              cpus |-> {1},
              setups |-> MaxSetups]

NextPci ==
    \E c \in Cpus :
        \/ \E b \in BOOLEAN : cpu_set_if(c, b)
        \/ \E d \in {1, 2}, a \in CfgArgs : pci_cfgread(c, d, a[1], a[2])
        \/ \E d \in {1, 2}, a \in CfgArgs : pci_cfgwrite(c, d, a[1], a[2])
        \/ cfg_enable(c)
        \/ cfg_access(c)
        \/ \E n \in {1, 2, 4, 8}, type \in {"mem", "io"} : pci_bar_read(c, n, type)
        \/ \E n \in {1, 2, 4, 8}, type \in {"mem", "io"} : pci_bar_write(c, n, type)
        \/ bar_access(c)
        \/ pci_return(c)
        \/ interrupt(c)

SpecPci == InitPciSpec /\ [][NextPci]_vars

\* Two CPUs in the configuration accessors at the same time, on registers
\* 0 and 4 of one device.
InitPci2 ==
    /\ Start
    /\ cfg = [addrs |-> {}, calls |-> 0, batch |-> {}, nrarg |-> {},
              cpus |-> Cpus,
              setups |-> MaxSetups]

NextPci2 ==
    \E c \in Cpus :
        \/ \E b \in BOOLEAN : cpu_set_if(c, b)
        \/ \E r \in {0, 4} : pci_cfgread(c, 1, r, 4)
        \/ \E r \in {0, 4} : pci_cfgwrite(c, 1, r, 4)
        \/ cfg_enable(c)
        \/ cfg_access(c)
        \/ pci_return(c)

SpecPci2 == InitPci2 /\ [][NextPci2]_vars

(* ------------------------- pci_platform_init_bar ----------------------- *)
\* The low bits of a BAR register that are not address bits.
PCI_BAR_B_TYPE_MASK == 1

PCI_BAR_IOPORT == 1

PCI_BAR_B_IOPORT_MASK == 3

PCI_BAR_B_MEMORY_MASK == 15

\* U64_FROM_BIT(32), in units of 16 bytes.
AllocLimit == 268435456

INVALID_PHYSICAL == -1

\* "(base & PCI_BAR_B_TYPE_MASK) == PCI_BAR_IOPORT"
BarIsIo(base) == BitAnd(base.lo, PCI_BAR_B_TYPE_MASK) = PCI_BAR_IOPORT

\* The test that never finds a BAR configured.
BarConfigured_never(base, is_io) == FALSE

\* "base & (is_io ? ~PCI_BAR_B_IOPORT_MASK : ~PCI_BAR_B_MEMORY_MASK)": the
\* bits of the register above the mask are not all zero.
BarConfigured(base, is_io) ==
    IF is_io
    THEN base.hi # 0 \/ base.lo - BitAnd(base.lo, PCI_BAR_B_IOPORT_MASK) # 0
    ELSE base.hi # 0 \/ base.lo - BitAnd(base.lo, PCI_BAR_B_MEMORY_MASK) # 0

\* The device's side of a 4-byte write to a BAR register: the address bits
\* below the decoded size and the type bits are hard-wired.
BarStore(reg, size, hi) == [hi |-> hi - (hi % size), lo |-> reg.lo]

\* pci_bar_size: all ones are written to the register, the size is what the
\* register reads back, and the register's value is put back.
pci_bar_size(reg, size) ==
    LET probe == BarStore(reg, size, AllocLimit - 1)
    IN [size |-> AllocLimit - probe.hi, reg |-> BarStore(reg, size, reg.hi),
        writes |-> 2]

\* id_heap_alloc_subrange(iomem, size, start, end): the bases of the free
\* size-aligned sub-ranges of the heap that lie in [start, end).
id_heap_alloc_subrange(iomem, used, size, start, end) ==
    {b \in {k * size : k \in (iomem[1] \div size)..(iomem[2] \div size)} :
        /\ b >= iomem[1]
        /\ b >= start
        /\ b + size <= end
        /\ b + size <= iomem[2]
        /\ \A u \in used : b + size <= u[1] \/ u[1] + u[2] <= b}

\* pci_cfgwrite(dev, PCIR_BAR(bar), 4, base): the low 32 bits of base reach
\* the register.
BarWrite(reg, size, base) == BarStore(reg, size, base % AllocLimit)

pci_platform_init_bar(b) ==
    /\ bar.inits < MaxBarInits
    /\ LET base == bar.reg[b]
           is_io == BarIsIo(base)
           skip == [NoBarLast EXCEPT !.bar = b, !.ran = TRUE, !.before = base]
       IN IF BarConfigured(base, is_io) \/ is_io \/ bar.iomem = <<>>
          THEN bar' = [bar EXCEPT !.inits = @ + 1, !.last = skip]
          ELSE LET sz == pci_bar_size(base, bar.size[b])
                   free == id_heap_alloc_subrange(bar.iomem, bar.used, sz.size,
                                                  0, AllocLimit)
                   tried == [skip EXCEPT !.tried = TRUE, !.probes = sz.writes]
               IN \E got \in free \cup {INVALID_PHYSICAL} :
                     IF got # INVALID_PHYSICAL
                     THEN bar' = [bar EXCEPT
                                     !.inits = @ + 1,
                                     !.reg[b] = BarWrite(sz.reg, bar.size[b], got),
                                     !.used = @ \cup {<<got, sz.size>>},
                                     !.last = [tried EXCEPT !.wrote = TRUE,
                                                            !.base = got]]
                     ELSE bar' = [bar EXCEPT
                                     !.inits = @ + 1,
                                     !.reg[b] = sz.reg,
                                     !.last = [tried EXCEPT
                                                  !.base = INVALID_PHYSICAL]]
    /\ UNCHANGED nonbar

\* The registers as the firmware left them: memory BARs (32-bit, 64-bit,
\* prefetchable) and I/O BARs, without a base or with one.
BiosRegs ==
    {[hi |-> 0, lo |-> 0], [hi |-> 0, lo |-> 4], [hi |-> 0, lo |-> 8],
     [hi |-> 0, lo |-> 1], [hi |-> 0, lo |-> 5], [hi |-> 3072, lo |-> 1],
     [hi |-> 267059200, lo |-> 0], [hi |-> 267124736, lo |-> 12]}

\* 512 KiB and 1 MiB, in units of 16 bytes.
BarSizes == {32768, 65536}

\* The bus's iomem range: none, 2 MiB at 0xE0000000, 2 MiB around the 4 GiB
\* mark, 1 MiB above it.
IomemRanges ==
    {<<>>, <<234881024, 235012096>>, <<268369920, 268500992>>,
     <<268435456, 268500992>>}

InitBarSpec ==
    /\ Start1
    /\ att = NoAtt
    /\ cfg = [addrs |-> {}, calls |-> 0, batch |-> {}, nrarg |-> {},
              cpus |-> {},
              setups |-> MaxSetups]
    /\ bar \in {[NoBar EXCEPT !.reg = [b \in Bars |-> IF b = 0 THEN r0 ELSE r1],
                              !.size = [b \in Bars |-> s],
                              !.iomem = m] :
                   r0 \in BiosRegs, r1 \in BiosRegs, s \in BarSizes,
                   m \in IomemRanges}

NextBar == \E b \in Bars : pci_platform_init_bar(b)

SpecBar == InitBarSpec /\ [][NextBar]_vars

(* ------------------------------ virtio-net ----------------------------- *)
\* a <= b on u64 values, a negative integer standing for the value it wraps
\* to (itself plus 2^64).
U64Le(a, b) ==
    IF (a >= 0) = (b >= 0) THEN a <= b ELSE b < 0

NetStep(N) ==
    /\ net' = N
    /\ UNCHANGED nonnet

\* The driver state at the start of a step: the history of the last step is
\* dropped.
NetNow == [net EXCEPT !.last = NoNetLast]

PoolBufs(N) == {b \in Bufs : N.buf[b].st = "pool"}

Posted(N, q) == {b \in Bufs : N.buf[b].st = "posted" /\ N.buf[b].q = q}

Min(S) == CHOOSE x \in S : \A y \in S : x <= y

\* post_receive: an xpbuf is allocated from vn->rxbuffers (the assert fails
\* when the heap has none) and committed to rxq with the closure input.
post_receive(N, q) ==
    IF PoolBufs(N) = {} THEN [N EXCEPT !.halted = TRUE]
    ELSE [N EXCEPT !.buf[Min(PoolBufs(N))] = [st |-> "posted", q |-> q]]

RECURSIVE Seed(_, _, _)
\* for (j = 0; j < virtqueue_entries(rxq); j++) post_receive(vn, rxq)
Seed(N, q, j) ==
    IF j = 0 THEN N ELSE Seed(post_receive(N, q), q, j - 1)

\* virtioif_init, called by netif_add under the lwIP lock: every RX queue is
\* seeded.
virtioif_init ==
    /\ ~net.up
    /\ net.lock = "free"
    /\ NetStep([Seed(Seed(NetNow, 1, RxEntries), 2, RxEntries)
                  EXCEPT !.up = TRUE])

\* receive_buffer_release: the xpbuf goes back to vn->rxbuffers.
receive_buffer_release_keep(N, b) == N

receive_buffer_release(N, b) ==
    [N EXCEPT !.buf[b] = [st |-> "pool", q |-> 0],
              !.dbl = @ \/ N.buf[b].st = "pool"]

\* The test input makes before it stores a checksum.
CsumTest(csum_start, csum_offset, len) ==
    U64Le(csum_start + csum_offset, len - 2)

\* Whether input releases the buffer it handed to the stack.
ReleaseAfterInput_always(err) == TRUE

ReleaseAfterInput(err) == err

\* post_receive(vn, bound(rxq)) at the end of input.
input_post_receive_other(N, q) == post_receive(N, 3 - q)

input_post_receive(N, q) == post_receive(N, q)

\* The frames the device completes: written length, NEEDS_CSUM, csum_start,
\* csum_offset.
RxArgs ==
    {<<72, FALSE, 0, 0>>, <<72, TRUE, 14, 16>>, <<72, TRUE, 14, 44>>,
     <<72, TRUE, 14, 45>>, <<72, TRUE, 60, 0>>, <<72, TRUE, 65535, 65535>>,
     <<14, TRUE, 0, 0>>, <<14, TRUE, 0, 1>>, <<13, TRUE, 0, 0>>,
     <<12, TRUE, 0, 0>>, <<12, TRUE, 14, 16>>, <<12, FALSE, 0, 0>>,
     <<11, FALSE, 0, 0>>}

\* input: the completion of the RX message of buffer b on queue q with
\* written length wlen. accept: whether vn->n->input returns ERR_OK; fault:
\* whether a checksum read running past the buffer faults.
input(q, b, wlen, needs, csum_start, csum_offset, accept, fault) ==
    LET len == wlen - NetHeaderLen
        N0 == [NetNow EXCEPT !.buf[b].st = "driver"]
        test == needs /\ CsumTest(csum_start, csum_offset, len)
        overrun == test /\ ~U64Le(csum_start, len)
        err1 == needs /\ ~test
        err == err1 \/ ~accept
        N1 == IF err1 THEN N0
              ELSE IF accept THEN [N0 EXCEPT !.buf[b].st = "stack"] ELSE N0
        N2 == IF ReleaseAfterInput(err) THEN receive_buffer_release(N1, b)
              ELSE N1
        hist == [NoNetLast EXCEPT !.op = "input", !.q = q, !.b = b,
                                  !.plen = len, !.needs = needs,
                                  !.csum_start = csum_start,
                                  !.csum_offset = csum_offset,
                                  !.stored = test, !.tostack = ~err1,
                                  !.accepted = ~err,
                                  !.released = ReleaseAfterInput(err),
                                  !.bst = N2.buf[b].st]
    IN /\ net.up /\ ~net.halted
       /\ b \in Posted(net, q)
       /\ net.lock = "free"
       /\ IF ~U64Le(len, RxBufLen) \/ (overrun /\ fault)
          THEN NetStep([N0 EXCEPT !.halted = TRUE])
          ELSE NetStep([input_post_receive(N2, q) EXCEPT !.last = hist])

\* The stack frees a received pbuf it owns: pbuf_free calls the
\* custom_free_function, receive_buffer_release.
stack_free_rx(b) ==
    /\ ~net.halted
    /\ net.lock = "stack"
    /\ net.buf[b].st = "stack"
    /\ NetStep(receive_buffer_release(NetNow, b))

\* The stack takes and gives back the lwIP lock.
stack_lock ==
    /\ ~net.halted
    /\ net.lock = "free"
    /\ NetStep([NetNow EXCEPT !.lock = "stack"])

stack_unlock ==
    /\ net.lock = "stack"
    /\ NetStep([NetNow EXCEPT !.lock = "free"])

\* The stack allocates a pbuf, takes a further reference, drops one.
stack_pbuf_alloc(p) ==
    /\ net.lock = "stack"
    /\ net.ref[p] = 0
    /\ NetStep([NetNow EXCEPT !.ref[p] = 1, !.held[p] = 1])

stack_pbuf_ref(p) ==
    /\ net.lock = "stack"
    /\ net.held[p] >= 1
    /\ net.ref[p] >= 1
    /\ net.ref[p] < MaxRef
    /\ net.held[p] < MaxRef - 1
    /\ NetStep([NetNow EXCEPT !.ref[p] = @ + 1, !.held[p] = @ + 1])

stack_pbuf_free(p) ==
    /\ net.lock = "stack"
    /\ net.held[p] >= 1
    /\ net.ref[p] >= 1
    /\ NetStep([NetNow EXCEPT !.ref[p] = @ - 1, !.held[p] = @ - 1])

\* pbuf_ref(p) in low_level_output.
pbuf_ref_none(n) == n

pbuf_ref(n) == n + 1

\* low_level_output(netif, p), called by the stack with the lwIP lock held:
\* a TX message is built, the pbuf referenced, the message committed with
\* the closure tx_complete; ERR_OK is returned.
low_level_output(p) ==
    /\ net.up /\ ~net.halted
    /\ net.lock = "stack"
    /\ net.held[p] >= 1
    /\ net.ref[p] >= 1
    /\ net.ref[p] < MaxRef
    /\ net.tx[1] + net.tx[2] < MaxTx
    /\ NetStep([NetNow EXCEPT !.ref[p] = pbuf_ref(@), !.tx[p] = @ + 1,
                              !.last = [NoNetLast EXCEPT !.op = "output",
                                                         !.p = p,
                                                         !.pre = net.ref[p]]])

\* tx_complete: the device has completed a TX message of pbuf p; lwip_lock,
\* pbuf_free, lwip_unlock.
tx_complete(p) ==
    /\ ~net.halted
    /\ net.tx[p] >= 1
    /\ net.lock = "free"
    /\ NetStep([NetNow EXCEPT !.ref[p] = IF @ = 0 THEN 0 ELSE @ - 1,
                              !.tx[p] = @ - 1,
                              !.last = [NoNetLast EXCEPT !.op = "tx_complete",
                                                         !.p = p,
                                                         !.pre = net.ref[p]]])

InitNetSpec ==
    /\ Start
    /\ cfg = [addrs |-> {}, calls |-> 0, batch |-> {}, nrarg |-> {},
              cpus |-> {},
              setups |-> MaxSetups]

\* The receive side: the device completes RX messages, the stack frees the
\* pbufs it accepted.
NextRx ==
    \/ virtioif_init
    \/ \E q \in RxQueues, b \in Bufs, a \in RxArgs, accept \in BOOLEAN :
          \E fault \in {FALSE, a[2] /\ a[1] - NetHeaderLen < a[3]} :
             input(q, b, a[1], a[2], a[3], a[4], accept, fault)
    \/ \E b \in Bufs : stack_free_rx(b)
    \/ stack_lock
    \/ stack_unlock

SpecRx == InitNetSpec /\ [][NextRx]_vars

\* The transmit side: the stack sends its pbufs, the device completes the TX
\* messages.
NextTx ==
    \/ virtioif_init
    \/ stack_lock
    \/ stack_unlock
    \/ \E p \in Pbufs : stack_pbuf_alloc(p)
    \/ \E p \in Pbufs : stack_pbuf_ref(p)
    \/ \E p \in Pbufs : stack_pbuf_free(p)
    \/ \E p \in Pbufs : low_level_output(p)
    \/ \E p \in Pbufs : tx_complete(p)

SpecTx == InitNetSpec /\ [][NextTx]_vars

(* ------------------------------- vnet_csum ----------------------------- *)
\* A u64, u32 or u16 is a sequence of 4, 2 or 1 16-bit limbs, the least
\* significant first.
RECURSIVE AddLimbs(_, _, _)
\* a + b + carry on values of the same width, wrapping at the width.
AddLimbs(a, b, carry) ==
    IF a = <<>> THEN <<>>
    ELSE LET t == Head(a) + Head(b) + carry
         IN <<t % 65536>> \o AddLimbs(Tail(a), Tail(b), t \div 65536)

RECURSIVE LtLimbs(_, _)
\* a < b on values of the same width.
LtLimbs(a, b) ==
    IF a = <<>> THEN FALSE
    ELSE LET n == Len(a)
         IN IF a[n] # b[n] THEN a[n] < b[n]
            ELSE LtLimbs(SubSeq(a, 1, n - 1), SubSeq(b, 1, n - 1))

\* s zero-extended to n limbs.
Widen(s, n) == s \o [i \in 1..(n - Len(s)) |-> 0]

\* if (sum < s) sum++;
CarryFix_none(sum, s) == sum

CarryFix(sum, s) ==
    IF LtLimbs(sum, s) THEN AddLimbs(sum, Widen(<<>>, Len(sum)), 1) ELSE sum

\* sum += s; if (sum < s) sum++; with s widened to the width of sum.
Accumulate(sum, s) ==
    CarryFix(AddLimbs(sum, Widen(s, Len(sum)), 0), Widen(s, Len(sum)))

\* *(u64 *)buf, *(u32 *)buf, *(u16 *)buf (little-endian) and *buf at byte
\* pos of buf (from 1).
Load(buf, pos, nbytes) ==
    IF nbytes = 1 THEN <<buf[pos]>>
    ELSE [k \in 1..(nbytes \div 2) |->
             buf[pos + 2 * k - 2] + 256 * buf[pos + 2 * k - 1]]

\* One step of vnet_csum on the nbytes at the cursor, if that many are left.
CsumStep(buf, a, nbytes) ==
    IF a.len >= nbytes
    THEN [sum |-> Accumulate(a.sum, Load(buf, a.pos, nbytes)),
          pos |-> a.pos + nbytes, len |-> a.len - nbytes]
    ELSE a

RECURSIVE CsumLoop(_, _)
\* while (len >= sizeof(u64)) ...
CsumLoop(buf, a) ==
    IF a.len >= 8 THEN CsumLoop(buf, CsumStep(buf, a, 8)) ELSE a

\* vnet_csum(buf, len) on the bytes of buf.
vnet_csum(buf) ==
    LET a8 == CsumLoop(buf, [sum |-> <<0, 0, 0, 0>>, pos |-> 1, len |-> Len(buf)])
        a4 == CsumStep(buf, a8, 4)
        a2 == CsumStep(buf, a4, 2)
        a1 == CsumStep(buf, a2, 1)
        s1 == Accumulate(SubSeq(a1.sum, 1, 2), SubSeq(a1.sum, 3, 4))
        s3 == Accumulate(<<s1[1]>>, <<s1[2]>>)
    IN 65535 - s3[1]

\* *(u16 *)(payload + at) = csum
StoreU16(buf, at, csum) ==
    [i \in 1..Len(buf) |->
        IF i = at + 1 THEN csum % 256
        ELSE IF i = at + 2 THEN csum \div 256
        ELSE buf[i]]

\* The 8-byte blocks and the tails the frames are made of, and a 60-byte
\* frame.
Blocks ==
    {<<255, 255, 255, 255, 255, 255, 255, 255>>,
     <<0, 0, 0, 0, 0, 0, 0, 0>>,
     <<1, 0, 0, 0, 0, 0, 0, 128>>,
     <<255, 255, 0, 0, 254, 255, 255, 255>>}

RECURSIVE Tails(_)
Tails(n) ==
    IF n = 0 THEN {<<>>}
    ELSE Tails(n - 1) \cup
         {Append(t, b) : t \in {u \in Tails(n - 1) : Len(u) = n - 1},
                         b \in {0, 1, 255}}

Frame60 == [i \in 1..60 |-> (i * 37 + 11) % 256]

Frames ==
    {Frame60} \cup
    {p \o t : p \in {<<>>} \cup Blocks \cup {x \o y : x, y \in Blocks},
              t \in Tails(MaxTail)}

\* The NEEDS_CSUM branch of input on the payload csm.buf.
input_csum ==
    LET len == Len(csm.buf)
        test == CsumTest(csm.csum_start, csm.csum_offset, len)
        csum == vnet_csum(SubSeq(csm.buf, csm.csum_start + 1, len))
    IN /\ ~csm.done
       /\ csm' = [csm EXCEPT
                     !.done = TRUE,
                     !.stored = test,
                     !.out = IF test
                             THEN StoreU16(csm.buf,
                                           csm.csum_start + csm.csum_offset,
                                           csum)
                             ELSE csm.buf]
       /\ UNCHANGED noncsm

\* A frame arrives with NEEDS_CSUM.
InitCsum ==
    /\ Start0
    /\ bar = NoBar
    /\ att = NoAtt
    /\ cfg = [addrs |-> {}, calls |-> 0, batch |-> {}, nrarg |-> {},
              cpus |-> {},
              setups |-> MaxSetups]
    /\ csm \in {[NoCsm EXCEPT !.buf = f, !.csum_start = a[1],
                              !.csum_offset = a[2]] :
                   f \in Frames,
                   a \in {<<0, 0>>, <<2, 1>>, <<14, 16>>}}

NextCsum == input_csum

SpecCsum == InitCsum /\ [][NextCsum]_vars

(* --------------------------- virtio_net_attach ------------------------- *)
MIN(a, b) == IF a < b THEN a ELSE b

VIRTIO_NET_OK == 0

VIRTIO_NET_ERR == 1

STATUS_OK == [key |-> "", msg |-> ""]

timm(key, msg) == [key |-> key, msg |-> msg]

\* bitmap_range_check_and_set(b, start, nbits, false, set): the bits
\* start .. start + nbits - 1 of the bitmap are set or cleared.
bitmap_range_check_and_set(b, start, nbits, set) ==
    IF set THEN b \cup (start..(start + nbits - 1))
    ELSE b \ (start..(start + nbits - 1))

\* num_cpus of pair i.
NumCpus_even(i, excess_cpus, cpus_per_vq) == cpus_per_vq

NumCpus(i, excess_cpus, cpus_per_vq) ==
    IF i < excess_cpus THEN cpus_per_vq + 1 ELSE cpus_per_vq

\* The loop over the pairs, from pair i on. s holds irq_affinity, first_cpu,
\* num_cpus and what the loop has built so far.
RECURSIVE AttachPairs(_, _, _, _, _)
AttachPairs(s, i, vq_pairs, excess_cpus, cpus_per_vq) ==
    IF i >= vq_pairs THEN s
    ELSE LET cleared == bitmap_range_check_and_set(s.irq_affinity, s.first_cpu,
                                                   s.num_cpus, FALSE)
             first_cpu == s.first_cpu + s.num_cpus
             num_cpus == NumCpus(i, excess_cpus, cpus_per_vq)
             irq == bitmap_range_check_and_set(cleared, first_cpu, num_cpus,
                                               TRUE)
             rx == 2 * i
             tx == rx + 1
         IN AttachPairs(
                [irq_affinity |-> irq, first_cpu |-> first_cpu,
                 num_cpus |-> num_cpus,
                 queues |-> s.queues \cup {rx, tx},
                 polling |-> s.polling \cup {tx},
                 aff |-> [s.aff EXCEPT ![rx] = irq, ![tx] = irq],
                 txq_map |-> [c \in AttCpus |->
                                IF c \in first_cpu..(first_cpu + num_cpus - 1)
                                THEN tx ELSE s.txq_map[c]]],
                i + 1, vq_pairs, excess_cpus, cpus_per_vq)

\* vnet_init_complete: netif_add under the lwIP lock; netif_add calls
\* virtioif_init, which fills every RX queue and sets linkoutput.
vnet_init_complete(a) ==
    [a EXCEPT !.netif = @ + 1,
              !.seeded = {2 * i : i \in 0..(a.vq_pairs - 1)},
              !.pc = "up",
              !.log = Append(@, "netif_add")]

\* vnet_cmd_mq_complete(s): assert(s == STATUS_OK), then vnet_init_complete.
vnet_cmd_mq_complete(a, s) ==
    IF s = STATUS_OK
    THEN vnet_init_complete([a EXCEPT !.log = Append(@, "ack_ok")])
    ELSE [a EXCEPT !.pc = "halted"]

\* apply(completion, s).
ApplyCompletion(a, s) ==
    vnet_cmd_mq_complete([a EXCEPT !.compl = Append(@, s)], s)

\* vnet_ctrl_cmd; cmd_ok, msg_ok: the allocations of the command and of the
\* virtqueue message succeed.
vnet_ctrl_cmd(a, class, cmd, data, cmd_ok, msg_ok) ==
    IF ~cmd_ok
    THEN ApplyCompletion(a, timm("result",
                                 "failed to allocate command structure"))
    ELSE IF ~msg_ok
    THEN ApplyCompletion([a EXCEPT !.cmd.st = "freed", !.frees = @ + 1],
                         timm("result", "failed to allocate virtqueue message"))
    ELSE [a EXCEPT !.cmd = [st |-> "live", class |-> class, cmd |-> cmd,
                            ack |-> VIRTIO_NET_ERR, data |-> data,
                            completion |-> "vnet_cmd_mq_complete"],
                   !.pc = "cmd",
                   !.log = Append(@, "cmd")]

\* virtio_net_attach, up to the point where it returns.
virtio_net_attach(cmd_ok, msg_ok) ==
    /\ att.pc = "probe"
    /\ LET max_vq_pairs == IF att.mq THEN att.device_max ELSE 1
           vq_pairs == IF att.mq THEN MIN(att.device_max, att.ncpu) ELSE 1
           cpus_per_vq == att.ncpu \div vq_pairs
           excess_cpus == att.ncpu - cpus_per_vq * vq_pairs
           s == AttachPairs([irq_affinity |-> {}, first_cpu |-> 0,
                             num_cpus |-> 0, queues |-> {}, polling |-> {},
                             aff |-> att.aff, txq_map |-> att.txq_map],
                            0, vq_pairs, excess_cpus, cpus_per_vq)
           ctl == IF vq_pairs > 1 THEN 2 * max_vq_pairs ELSE att.ctl
           a == [att EXCEPT !.max_vq_pairs = max_vq_pairs,
                            !.vq_pairs = vq_pairs,
                            !.queues = IF vq_pairs > 1
                                       THEN s.queues \cup {ctl} ELSE s.queues,
                            !.polling = s.polling,
                            !.aff = s.aff,
                            !.txq_map = s.txq_map,
                            !.ctl = ctl,
                            !.driver_ok = TRUE,
                            !.log = <<"driver_ok">>]
       IN att' = IF vq_pairs > 1
                 THEN vnet_ctrl_cmd(a, "CTRL_MQ", "MQ_VQ_PAIRS_SET", vq_pairs,
                                    cmd_ok, msg_ok)
                 ELSE vnet_init_complete(a)
    /\ UNCHANGED nonatt

\* What vnet_cmd_complete does with the command, in order.
CmdCompleteSteps_freefirst(len) ==
    <<"deallocate">>
    \o (IF len = 1 THEN <<"read_ack">> ELSE <<>>)
    \o <<"read_completion", "apply">>

CmdCompleteSteps(len) ==
    (IF len = 1 THEN <<"read_ack">> ELSE <<>>)
    \o <<"read_completion", "deallocate", "apply">>

RECURSIVE RunCmdComplete(_, _, _)
RunCmdComplete(a, steps, s) ==
    IF steps = <<>> THEN a
    ELSE LET k == Head(steps)
             b == CASE k = "deallocate" ->
                         [a EXCEPT !.cmd.st = "freed", !.frees = @ + 1]
                    [] k = "apply" -> ApplyCompletion(a, s)
                    [] OTHER -> [a EXCEPT !.late = @ \/ a.cmd.st = "freed"]
         IN RunCmdComplete(b, Tail(steps), s)

\* vnet_cmd_complete(len): the device has returned the control message with
\* len bytes written; wr: the byte it stored in ack (Unset: none).
vnet_cmd_complete(len, wr) ==
    /\ att.pc = "cmd"
    /\ att.cmd.st = "live"
    /\ LET ack == IF wr = Unset THEN att.cmd.ack ELSE wr
           s == IF len # 1 THEN timm("result", "invalid length")
                ELSE IF ack # VIRTIO_NET_OK
                THEN timm("result", "command status")
                ELSE STATUS_OK
       IN att' = RunCmdComplete([att EXCEPT !.cmd.ack = ack, !.len = len],
                                CmdCompleteSteps(len), s)
    /\ UNCHANGED nonatt

\* low_level_output on CPU c up to the last vqmsg_push: the queue is chosen
\* from txq_map, a message allocated on it and filled.
txq_of_cpu(a, c) == a.txq_map[c]

tx_select(c) ==
    /\ att.pc = "up"
    /\ c < att.ncpu
    /\ att.cpu[c].pc = "idle"
    /\ att.sends < MaxSends
    /\ att.serial => \A d \in AttCpus : att.cpu[d].pc = "idle"
    /\ LET txq == txq_of_cpu(att, c)
       IN att' = [att EXCEPT !.cpu[c] = [pc |-> "msg", txq |-> txq],
                             !.users[txq] = @ \cup {c}]
    /\ UNCHANGED nonatt

\* vqmsg_commit and the return of low_level_output on CPU c.
tx_commit(c) ==
    /\ att.cpu[c].pc = "msg"
    /\ att' = [att EXCEPT !.cpu[c] = [pc |-> "idle", txq |-> Unset],
                          !.sends = @ + 1]
    /\ UNCHANGED nonatt

InitAtt ==
    /\ Start2
    /\ cfg = [addrs |-> {}, calls |-> 0, batch |-> {}, nrarg |-> {},
              cpus |-> {},
              setups |-> MaxSetups]
    /\ att \in {[NoAtt EXCEPT !.ncpu = n, !.device_max = d, !.mq = m,
                              !.serial = s] :
                   n \in 1..MaxCpus, d \in 1..MaxDevPairs, m \in BOOLEAN,
                   s \in BOOLEAN}

NextAtt ==
    \/ \E cmd_ok \in BOOLEAN, msg_ok \in BOOLEAN :
           virtio_net_attach(cmd_ok, msg_ok)
    \/ \E len \in 0..2, wr \in {Unset, VIRTIO_NET_OK, VIRTIO_NET_ERR} :
           vnet_cmd_complete(len, wr)
    \/ \E c \in AttCpus : tx_select(c)
    \/ \E c \in AttCpus : tx_commit(c)

SpecAtt == InitAtt /\ [][NextAtt]_vars

(* ============================== properties ============================= *)
Live == {c \in Ctxs : aio[c].st = "live"}

\* Events queued in ring r: (tail - head) mod nr.
Queued(r) == (r.tail - r.head + r.nr) % r.nr

RECURSIVE RingFrom(_, _, _)
\* The n events of ring r from slot i on, in ring order.
RingFrom(r, i, n) ==
    IF n = 0 THEN <<>>
    ELSE <<r.events[i]>> \o RingFrom(r, (i + 1) % r.nr, n - 1)

\* The locals of the system call that returned in the step just taken.
Ret == gh.last.x

\* C1: in every reachable state of a live context, head and tail lie in
\* [0, nr) and ongoing_ops plus the number of events queued in the ring is at
\* most nr - 1.
C1_RingIndicesAndOccupancy ==
    \A c \in Live :
        /\ ring[c].nr = aio[c].nr
        /\ ring[c].head \in 0..(ring[c].nr - 1)
        /\ ring[c].tail \in 0..(ring[c].nr - 1)
        /\ aio[c].ongoing_ops >= 0
        /\ aio[c].ongoing_ops + Queued(ring[c]) <= ring[c].nr - 1

\* A ring filled to its limit by an operation in flight and a queued event.
C1_Witness ==
    \E c \in Live :
        /\ aio[c].ongoing_ops >= 1
        /\ Queued(ring[c]) >= 1
        /\ aio[c].ongoing_ops + Queued(ring[c]) = ring[c].nr - 1

\* C2: the events in the ring between head and tail are exactly the events
\* the completion callbacks produced and no harvest consumed, one per
\* callback, in order: none overwritten, none missing, none twice.
C2_OneEventPerCompletion ==
    \A c \in Live :
        RingFrom(ring[c], ring[c].head, Queued(ring[c])) = gh.fifo[c]

\* Events are queued across the wrap of the ring.
C2_Witness ==
    \E c \in Live :
        /\ ring[c].tail < ring[c].head
        /\ Len(gh.fifo[c]) >= 1

\* The iocb_enqueue step of thread t on a validated iocb: the thread's locals
\* after the step, wherever the step left them.
AfterEnqueue(t) == IF th'[t].pc = "idle" THEN gh'.last.x ELSE th'[t]

Validated(t) ==
    \/ th'[t].pc \in {"submit", "rollback"}
    \/ AfterEnqueue(t).rv = 0
    \/ EnqueuePrecheck(AfterEnqueue(t).iocbp) = 0

\* avail_slots as the claim states it: (head - tail) mod nr, or nr when zero.
AvailSlots(r) ==
    LET d == (r.head - r.tail + r.nr) % r.nr IN IF d = 0 THEN r.nr ELSE d

C3_Step(t) ==
    LET c == th[t].aio
        x1 == AfterEnqueue(t)
    IN (/\ th[t].pc = "submit"
        /\ th[t].io_ops < th[t].sub_nr
        /\ th'[t] # th[t]
        /\ Validated(t))
       => /\ IF aio[c].ongoing_ops >= AvailSlots(ring[c]) - 1
             THEN /\ x1.rv = -EAGAIN
                  /\ th'[t].pc = "idle"
                  /\ aio'[c].ongoing_ops = aio[c].ongoing_ops
             ELSE /\ x1.rv # -EAGAIN
                  /\ aio'[c].ongoing_ops = aio[c].ongoing_ops + 1
          /\ (ring[c].nr = 2 /\ aio[c].ongoing_ops = 1) => x1.rv = -EAGAIN

\* C3: a validated iocb is refused with EAGAIN, ongoing_ops unchanged, exactly
\* when ongoing_ops >= avail_slots - 1, and otherwise ongoing_ops grows by one;
\* on a ring of io_setup(1) a submission behind one in flight is refused.
C3_AdmissionOrEagain == [][\A t \in Threads : C3_Step(t)]_vars

\* io_submit of two PREADs on the ring of io_setup(1): the first dispatched,
\* the second refused with EAGAIN.
C3_Witness ==
    /\ Ret.call = "io_submit"
    /\ Ret.rv = -EAGAIN
    /\ Ret.disp = 1
    /\ Ret.ret = 1
    /\ Ret.aio \in Live
    /\ ring[Ret.aio].nr = 2

\* C4: right after a successful io_setup(n) the ring has nr = n + 1,
\* head = tail = 0, magic 0xA10A10A1, compat_features 1, incompat_features 0,
\* and the context has ongoing_ops 0, refcount 1 and is in the process table
\* under the id in the ring header.
C4_SetupPostcondition ==
    (Ret.call = "io_setup" /\ Ret.ret = 0) =>
        LET c == Ret.ctx_id IN
        /\ ring[c].mapped
        /\ ring[c].nr = Ret.nr_events + 1
        /\ ring[c].head = 0 /\ ring[c].tail = 0
        /\ ring[c].magic = <<41226, 4257>>
        /\ ring[c].compat_features = 1
        /\ ring[c].incompat_features = 0
        /\ aio[c].st = "live"
        /\ aio[c].nr = Ret.nr_events + 1
        /\ aio[c].ongoing_ops = 0
        /\ aio[c].refcount = 1
        /\ aio_tab[ring[c].id] = c

C4_Witness == Ret.call = "io_setup" /\ Ret.ret = 0 /\ Ret.nr_events = 2

\* C5: io_submit that found its context returns the first iocb's error if
\* the first iocb failed, the number enqueued before the failure if a later
\* one failed, and nr if none failed; it dispatched exactly the count it
\* returns.
C5_SubmitReturnsCount ==
    (Ret.call = "io_submit" /\ Ret.aio # 0) =>
        /\ Ret.rv # 0 => /\ Ret.disp < Ret.sub_nr
                          /\ Ret.ret = IF Ret.disp = 0 THEN Ret.rv ELSE Ret.disp
        /\ Ret.rv = 0 => Ret.ret = Ret.sub_nr /\ Ret.disp = Ret.sub_nr
        /\ Ret.ret >= 0 => Ret.disp = Ret.ret
        /\ Ret.ret < 0 => Ret.disp = 0 /\ Ret.ret = Ret.rv

\* A batch of two whose second iocb failed: io_submit returned 1.
C5_Witness ==
    /\ Ret.call = "io_submit"
    /\ Ret.sub_nr = 2
    /\ Ret.rv < 0
    /\ Ret.ret = 1
    /\ Ret.disp = 1

\* C6: io_getevents returns the number of events it copied, at most nr, and
\* returns only when that number reached min_nr, or timeout was 0, or its
\* timer fired; with a finite timeout and nothing copied it returns 0 only
\* after the timer fired.
C6_GeteventsReturn ==
    (Ret.call = "io_getevents" /\ Ret.ret >= 0) =>
        /\ Ret.ret = Ret.got
        /\ Ret.ret <= Ret.nr
        /\ Ret.ret >= Ret.min_nr \/ Ret.timeout = "zero" \/ Ret.timedout
        /\ (Ret.timeout = "finite" /\ Ret.min_nr > 0 /\ Ret.got = 0)
              => Ret.ret = 0 /\ Ret.timedout

\* C7: every event io_getevents returns is the event of a submitted iocb:
\* obj is the iocb's address, data its aio_data, res the result of its read
\* or write.
C7_ReturnedEventsMatchIocbs ==
    (Ret.call = "io_getevents" /\ Ret.ret > 0) =>
        \A i \in 0..(Ret.ret - 1) :
            /\ i \in DOMAIN Ret.buf
            /\ Ret.buf[i].obj \in IocbAddrs \ {0}
            /\ Ret.buf[i].data = Iocb(Ret.buf[i].obj).aio_data
            /\ Ret.buf[i].res = Result(Ret.buf[i].obj)

\* C8: no completion callback writes to the ring of a context whose
\* io_destroy has returned.
C8_NoCompletionAfterDestroy == ~gh.late

\* C9: the drain's completion callback releases the table's reference only
\* when it read ongoing_ops = 0; when it read ongoing_ops > 0 it re-entered
\* the drain and the io_destroy call has not returned.
C9_ReleaseOnlyWhenDrained ==
    gh.dc.ran =>
        /\ gh.dc.released => gh.dc.ops = 0
        /\ gh.dc.ops > 0 => /\ ~gh.dc.released
                             /\ th[gh.dc.t].call = "io_destroy"
                             /\ th[gh.dc.t].pc = "blocked"
                             /\ th[gh.dc.t].aio \in Live
                             /\ aio[th[gh.dc.t].aio].refcount >= 2

\* The drain's completion callback found operations still in flight and
\* parked the io_destroy call again.
C9_Witness ==
    /\ gh.dc.ran
    /\ gh.dc.ops > 0
    /\ ~gh.dc.released
    /\ th[gh.dc.t].pc = "blocked"

\* Context c was taken out of the process table by io_destroy and is not
\* freed yet.
Removed(c) == aio[c].st = "live" /\ \A i \in Ids : aio_tab[i] # c

\* Thread t is inside io_destroy.
InDestroy(t) == th[t].call = "io_destroy" /\ th[t].pc # "idle"

\* A call on a ring pointer whose context had been freed returned.
ReturnedOnFreed ==
    /\ Ret.call \in {"io_submit", "io_getevents", "io_destroy"}
    /\ Ret.aio = 0
    /\ Ret.ctx_id # 0
    /\ aio[Ret.ctx_id].st = "freed"

\* C10: with every operation in flight completing, io_destroy returns (0,
\* never EINTR or ERESTARTSYS), the ring it removed from the table is
\* eventually unmapped, and a later call naming that context returns EINVAL.
C10_DestroyTerminatesAndUnmaps ==
    /\ \A t \in Threads : InDestroy(t) ~> ~InDestroy(t)
    /\ \A c \in Ctxs : Removed(c) ~> (aio[c].st = "freed")
    /\ [](Ret.call = "io_destroy" /\ Ret.aio # 0 => Ret.ret = 0)
    /\ [](ReturnedOnFreed => Ret.ret = -EINVAL)

\* The aio_complete closures of context c that have not dropped their
\* reference.
ClosuresOn(c) ==
    BagCardinality([op \in {o \in BagToSet(ops) : o.aio = c} |-> ops[op]])

\* The references thread t holds on context c: the one its lookup took (for
\* io_destroy, the table's reference it took over), the one of the closure
\* iocb_enqueue is rolling back, the one of the parked drain action.
HeldBy(t, c) ==
    IF th[t].pc = "idle" \/ th[t].aio # c THEN 0
    ELSE CASE th[t].pc = "rollback" -> 2
           [] th[t].call = "io_destroy" /\ th[t].pc = "blocked" -> 2
           [] OTHER -> 1

\* The holders of context c: the process table, the closures, the threads.
Holders(c) ==
    (IF \E i \in Ids : aio_tab[i] = c THEN 1 ELSE 0)
      + ClosuresOn(c) + HeldBy(1, c) + HeldBy(2, c)

\* C11: a context is freed and its ring unmapped only when no holder is
\* left (table entry, completion closure, thread inside io_submit,
\* io_getevents or io_destroy); a live context's refcount covers its holders;
\* nothing is read from or written to a freed context or its ring.
C11_FreedOnlyWithoutHolders ==
    \A c \in Ctxs :
        IF aio[c].st = "live"
        THEN /\ aio[c].refcount >= 1
             /\ aio[c].refcount >= Holders(c)
             /\ ring[c].mapped
        ELSE /\ Holders(c) = 0
             /\ aio[c] \in {NoAio, [NoAio EXCEPT !.st = "freed"]}
             /\ ring[c] = NoRing

\* A context destroyed while a reader was parked on it is freed by the
\* reader's release, the last one.
C11_Witness ==
    \E c \in Ctxs :
        /\ aio[c].st = "freed"
        /\ Ret.call = "io_getevents"
        /\ Ret.aio = c
        /\ c \in gh.destroyed

\* Thread t is parked in io_getevents.
Parked(t) == th[t].pc = "blocked" /\ th[t].kind = "ge"

\* The ring of the context t waits on holds the min_nr events t asked for.
Satisfiable(t) == Parked(t) /\ Queued(ring[th[t].aio]) >= th[t].min_nr

\* An io_destroy drain of the context t is parked on is under way.
Draining(t) ==
    /\ Parked(t)
    /\ \E u \in Threads : InDestroy(u) /\ th[u].aio = th[t].aio

\* C12: a thread parked in io_getevents does not stay parked once completions
\* have made its min_nr satisfiable, nor once an io_destroy drains the
\* context it is parked on (timer expiry and signals re-enter the action by
\* blockq_timeout and blockq_nullify).
C12_EveryWaiterWoken ==
    \A t \in Threads :
        /\ Satisfiable(t) ~> ~Parked(t)
        /\ Draining(t) ~> ~Parked(t)

\* The call that returns in this step is an io_submit or io_getevents whose
\* ring pointer is readable and names an id with no entry in p->aio.
NoEntryReturn ==
    /\ gh'.last.x.call \in {"io_submit", "io_getevents"}
    /\ gh'.last.x.aio = 0
    /\ ring[gh'.last.x.ctx_id].mapped

\* C13: io_submit and io_getevents on an id with no entry in the process aio
\* table return EINVAL and leave every context, every ring and the process
\* lock as they were.
C13_UnknownContextEinval ==
    [][NoEntryReturn =>
          /\ gh'.last.x.ret = -EINVAL
          /\ aio' = aio
          /\ ring' = ring
          /\ plock' = plock]_vars

\* The io_destroy call that returns in this step.
DestroyRet == gh'.last.x

\* Thread t enters io_destroy in this step and is parked by it.
DestroyParks(t) ==
    /\ th[t].pc = "idle"
    /\ th'[t].call = "io_destroy"
    /\ th'[t].pc = "blocked"

\* C14: io_destroy takes the id out of the process table and starts one
\* drain of its context; on an id that is not in the table it returns EINVAL,
\* starts no drain and releases nothing; the table's reference of a context
\* is released once, whatever the number of io_destroy calls naming it.
C14_DestroyOnce ==
    [][/\ (/\ DestroyRet.call = "io_destroy"
            /\ DestroyRet.aio = 0
            /\ ring[DestroyRet.ctx_id].mapped)
          => /\ DestroyRet.ret = -EINVAL
             /\ aio' = aio /\ ring' = ring /\ aio_tab' = aio_tab
             /\ ~gh'.dc.ran
       /\ (DestroyRet.call = "io_destroy" /\ DestroyRet.aio # 0)
          => /\ DestroyRet.ret = 0
             /\ gh'.dc.released
             /\ DestroyRet.aio \notin gh.destroyed
             /\ \A i \in Ids : aio_tab'[i] # DestroyRet.aio
       /\ \A t \in Threads :
             DestroyParks(t) =>
                /\ aio_tab[ring[th'[t].ctx_id].id] = th'[t].aio
                /\ \A i \in Ids : aio_tab'[i] # th'[t].aio
                /\ th'[t].kind = "drain"
                /\ ~gh'.dc.released
                /\ \A u \in Threads \ {t} :
                      ~(th[u].call = "io_destroy" /\ th[u].aio = th'[t].aio)
      ]_vars

\* A second io_destroy on a context another thread is draining returned
\* EINVAL.
C14_Witness ==
    /\ Ret.call = "io_destroy"
    /\ Ret.ret = -EINVAL
    /\ \E u \in Threads : InDestroy(u) /\ th[u].aio = Ret.ctx_id

After(t) == IF th'[t].pc = "idle" /\ gh'.last.t = t THEN gh'.last.x ELSE th'[t]

\* C16: the events a harvest takes out of the ring and stores in the
\* caller's array (from index copied_evts on) are the oldest events the
\* completion callbacks produced, in the order in which the callbacks took
\* the context lock, whatever the order of submission.
C16_CompletionOrder ==
    [][\A t \in Threads :
          (th[t].kind = "ge" /\ th[t].pc \in {"ge_enter", "blocked"}) =>
             LET c == th[t].aio
                 n == After(t).got - th[t].got
                 k == IF th[t].pc = "ge_enter" THEN 0 ELSE aio[c].copied_evts
             IN /\ n <= Len(gh.fifo[c])
                /\ \A i \in 0..(n - 1) :
                      (k + i) \in DOMAIN After(t).buf =>
                          After(t).buf[k + i] = gh.fifo[c][i + 1]
      ]_vars

\* io_getevents returned two different events, the one submitted first in
\* second place.
C16_Witness ==
    /\ Ret.call = "io_getevents"
    /\ Ret.ret = 2
    /\ Ret.got = 2
    /\ Ret.buf[0].obj # Ret.buf[1].obj
    /\ Ret.buf[1].obj = gh.first

\* The slots the reader still has to copy: from its head up to the tail it
\* loaded.
ToCopy == {i \in Slots : i < MemNr /\
              (i - mem.r.head + MemNr) % MemNr < (mem.r.tail - mem.r.head + MemNr) % MemNr}

\* The three fields of a slot were stored by one and the same completion.
FullyWritten(e) == e.data # 0 /\ e.obj = e.data /\ e.res = e.data

\* C17: while the harvest copies, every slot between its head and the tail it
\* loaded holds the data, obj and res of one completion.
C17_ObservedSlotsComplete ==
    mem.r.pc = "copy" => \A i \in ToCopy : FullyWritten(mem.ev[i])

\* The harvest has events to copy while a completion waits for the lock.
C17_Witness ==
    /\ mem.r.pc = "copy"
    /\ ToCopy # {}
    /\ \E a \in Writers : mem.w[a].pc = "start"

\* The operations of context c handed to an fd and not completed yet.
InFlight(c) == {op \in BagToSet(ops) : op.aio = c /\ op.st = "inflight"}

\* The parked io_getevents of thread t is nullified in this step.
NullifiedStep(t) ==
    /\ Parked(t)
    /\ gh'.last.t = t
    /\ gh'.last.x.ret \in {-EINTR, -ERESTARTSYS}

\* The io_getevents that returned in the step just taken was nullified while
\* operations of its context were in flight.
NullifiedWithInFlight ==
    /\ Ret.call = "io_getevents"
    /\ Ret.ret \in {-EINTR, -ERESTARTSYS}
    /\ InFlight(Ret.aio) # {}

\* C18: the nullification of a parked io_getevents leaves the operations in
\* flight, ongoing_ops and the ring as they were (the context is freed by it
\* only when nothing is in flight); every operation then in flight completes
\* later, and each completion adds its event to the ring.
C18_SignalLeavesOperations ==
    /\ [][\A t \in Threads :
             NullifiedStep(t) =>
                LET c == th[t].aio IN
                /\ ops' = ops
                /\ aio'[c].st = "live"
                      => /\ aio'[c].ongoing_ops = aio[c].ongoing_ops
                         /\ ring'[c] = ring[c]
                /\ aio'[c].st # "live"
                      => aio[c].ongoing_ops = 0 /\ ClosuresOn(c) = 0]_vars
    /\ [][\A c \in Ctxs :
             Cardinality(InFlight(c)') < Cardinality(InFlight(c)) =>
                /\ aio'[c].st = "live"
                /\ Queued(ring'[c]) = Queued(ring[c]) + 1
                /\ aio'[c].ongoing_ops = aio[c].ongoing_ops - 1]_vars
    /\ \A c \in Ctxs :
          (NullifiedWithInFlight /\ Ret.aio = c) ~> (InFlight(c) = {})

\* A nullified io_getevents has returned and an operation is still in
\* flight.
C18_Witness ==
    /\ NullifiedWithInFlight
    /\ aio[Ret.aio].ongoing_ops >= 1

\* The accessor that returned in the step just taken, with its locals.
PciRet == pci.last.x

\* A configuration accessor returned, called on a device in range.
CfgReturned ==
    /\ pci.last.ran
    /\ PciRet.fn \in {"cfgread", "cfgwrite"}
    /\ PciRet.dev = 1

\* (reg, bytes) as the contract rejects them.
ContractInvalid(reg, bytes) ==
    \/ reg > 255
    \/ bytes \in {0, 3}
    \/ bytes >= 5
    \/ bytes >= 1 /\ reg >= 0 /\ reg % bytes # 0

\* (reg, bytes) as the contract accepts them.
ContractValid(reg, bytes) ==
    /\ reg \in 0..255
    /\ bytes \in {1, 2, 4}
    /\ reg % bytes = 0

\* C19: for reg > 255, bytes in {0, 3, 5 and above} or reg % bytes # 0,
\* pci_cfgenable returns 0, no port is written (CONFIG_ADDRESS included),
\* pci_cfgread returns ~0 and pci_cfgwrite writes nothing; for valid
\* (reg, bytes) it writes enable|bus|slot|function|(reg & ~3) to 0x0CF8 and
\* returns data port 0x0CFC + (reg & 3).
C19_CfgEnableContract ==
    CfgReturned =>
        /\ ContractInvalid(PciRet.reg, PciRet.bytes) =>
              /\ PciRet.port = 0
              /\ PciRet.io = <<>>
              /\ PciRet.data = AllOnes
        /\ ContractValid(PciRet.reg, PciRet.bytes) =>
              /\ PciRet.port = 3324 + (PciRet.reg % 4)
              /\ Len(PciRet.io) = 2
              /\ PciRet.io[1].op = "out"
              /\ PciRet.io[1].port = 3320
              /\ PciRet.io[1].val =
                    <<32768, (3 * 2048) + PciRet.reg - (PciRet.reg % 4)>>
              /\ PciRet.io[2].port = PciRet.port
              /\ PciRet.io[2].w = PciRet.bytes

\* C20: on every path through pci_cfgread, pci_cfgwrite and the BAR
\* accessors interrupts are disabled on the executing CPU from before the
\* CONFIG_ADDRESS write (or the BAR access) until after the data access: the
\* CPU takes no interrupt inside the call and every access of the call is
\* made with interrupts off; on exit the interrupt-enable state is the one at
\* entry.
C20_IrqDisabledAroundAccess ==
    /\ \A c \in Cpus :
          pci.cpu[c].pc # "idle" =>
             /\ ~pci.cpu[c].ifl
             /\ \A i \in 1..Len(pci.cpu[c].io) :
                   /\ pci.cpu[c].io[i].op # "intr"
                   /\ ~pci.cpu[c].io[i].ifl
    /\ pci.last.ran =>
          /\ pci.cpu[pci.last.cpu].ifl = PciRet.entry
          /\ PciRet.ifl = PciRet.entry
          /\ \A i \in 1..Len(PciRet.io) :
                PciRet.io[i].op # "intr" /\ ~PciRet.io[i].ifl
          /\ PciRet.fn \in {"bar_read", "bar_write"} => Len(PciRet.io) >= 1

\* A configuration read called with interrupts enabled made its two port
\* accesses and returned with interrupts enabled again.
C20_Witness ==
    /\ pci.last.ran
    /\ PciRet.fn = "cfgread"
    /\ PciRet.entry
    /\ Len(PciRet.io) = 2
    /\ pci.cpu[pci.last.cpu].ifl

\* C21: a configuration access is atomic with respect to the other CPU: the
\* data-port access of a CPU is made while CONFIG_ADDRESS holds the address
\* that CPU wrote, so a read returns the register it addressed and a write
\* lands on the register it addressed.
C21_CfgAccessAtomic ==
    \A c \in Cpus :
        LET x == pci.cpu[c] IN
        /\ (x.pc = "restore" /\ Len(x.io) = 2) =>
              /\ x.io[1].val = ConfAddr(PciDev(x.dev), x.reg)
              /\ x.io[2].val = x.io[1].val
        /\ (x.pc = "restore" /\ x.fn = "cfgread" /\ Len(x.io) = 2) =>
              x.data = <<ConfAddr(PciDev(x.dev), x.reg), x.port - 3324>>

\* C22: low_level_output takes one reference on the pbuf before it commits
\* the TX message and the completion callback drops one, under the lwIP lock:
\* the reference count is the stack's references plus the messages in flight
\* (so it is back at its value without the call once the message has
\* completed), and a pbuf with a message in flight is not freed.
C22_TxReferenceBalanced ==
    /\ [](\A p \in Pbufs :
             /\ net.ref[p] = net.held[p] + net.tx[p]
             /\ net.tx[p] >= 1 => net.ref[p] >= 1)
    /\ [](net.last.op = "output" =>
             net.ref[net.last.p] = net.last.pre + 1)
    /\ [](net.last.op = "tx_complete" =>
             net.ref[net.last.p] = net.last.pre - 1)
    /\ [][\A p \in Pbufs :
             /\ net'.tx[p] < net.tx[p] =>
                   net.lock = "free" /\ net'.ref[p] = net.ref[p] - 1
             /\ net'.tx[p] > net.tx[p] =>
                   net.lock = "stack" /\ net'.ref[p] = net.ref[p] + 1]_vars

\* The stack dropped its reference while the message was in flight; the
\* completion then freed the pbuf.
C22_Witness ==
    /\ net.last.op = "tx_complete"
    /\ net.last.pre = 1
    /\ net.ref[net.last.p] = 0
    /\ net.held[net.last.p] = 0

\* The RX completion callback ran in the step just taken.
InputRan == net.last.op = "input"

\* C23: after its completion an RX buffer is either back in the pool,
\* released by the driver (the stack rejected it or the checksum was
\* impossible), or owned by the stack, which returns it to the pool through
\* the custom-free callback; no buffer is returned twice and none is left
\* with neither the pool, a queue nor the stack.
C23_RxBufferReturnedOnce ==
    /\ [](~net.halted =>
             /\ \A b \in Bufs : net.buf[b].st \in {"pool", "posted", "stack"}
             /\ ~net.dbl)
    /\ [](InputRan =>
             /\ net.last.accepted =>
                   /\ net.last.bst = "stack"
                   /\ ~net.last.released
                   /\ net.buf[net.last.b].st = "stack"
             /\ ~net.last.accepted =>
                   /\ net.last.bst = "pool"
                   /\ net.last.released)
    /\ [][\A b \in Bufs :
             (net.buf[b].st = "stack" /\ net'.buf[b].st # "stack") =>
                 net'.buf[b].st = "pool" /\ net.lock = "stack"]_vars

\* The stack rejected a frame while it owned another buffer: the driver
\* returned the rejected one.
C23_Witness ==
    /\ InputRan
    /\ net.last.tostack
    /\ ~net.last.accepted
    /\ net.last.released
    /\ \E b \in Bufs : net.buf[b].st = "stack"

\* The checksum store of the completed frame lies inside its payload.
StoreInside ==
    /\ net.last.plen >= 0
    /\ net.last.csum_start + net.last.csum_offset + 2 <= net.last.plen

\* C25: on an RX completion with NEEDS_CSUM the checksum is stored only when
\* csum_start + csum_offset + 2 <= payload length (written length minus
\* net_header_len), payload lengths 0 and 1 included; otherwise the packet is
\* dropped: the buffer is back in the pool and the stack has not seen it.
C25_CsumStoreInBounds ==
    (InputRan /\ net.last.needs) =>
        /\ net.last.stored => StoreInside
        /\ ~StoreInside =>
              /\ ~net.last.stored
              /\ ~net.last.tostack
              /\ net.last.bst = "pool"

\* C30: once virtioif_init has seeded the queues, every RX queue has
\* virtqueue_entries(rxq) buffers posted and not completed whenever no
\* completion callback is running: each completion posts one buffer to the
\* queue it came from.
C30_RxQueueKeptFull ==
    /\ []((net.up /\ ~net.halted) =>
             \A q \in RxQueues : Cardinality(Posted(net, q)) = RxEntries)
    /\ [][(net'.last.op = "input" /\ ~net'.halted) =>
             LET q == net'.last.q
                 b == net'.last.b
             IN /\ Cardinality(Posted(net', q) \ (Posted(net, q) \ {b})) = 1
                /\ \A o \in RxQueues \ {q} : Posted(net', o) = Posted(net, o)
          ]_vars

\* A frame dropped for its checksum has been replaced in its queue.
C30_Witness ==
    /\ InputRan
    /\ net.last.needs
    /\ ~net.last.tostack
    /\ ~net.halted
    /\ Cardinality(Posted(net, net.last.q)) = RxEntries

RECURSIVE OnesSum(_, _)
\* The 16-bit one's-complement sum of the bytes of buf from byte i (from 1)
\* on, read as little-endian 16-bit words, an odd last byte zero-extended,
\* added to acc with end-around carry.
OnesSum(buf, acc) ==
    IF buf = <<>> THEN acc
    ELSE LET w == IF Len(buf) = 1 THEN buf[1] ELSE buf[1] + 256 * buf[2]
             t == acc + w
             r == IF t > 65535 THEN t - 65535 ELSE t
         IN OnesSum(IF Len(buf) <= 2 THEN <<>> ELSE SubSeq(buf, 3, Len(buf)), r)

\* C24: vnet_csum returns the bitwise NOT of the 16-bit one's-complement sum
\* of the bytes read as little-endian 16-bit words (odd last byte
\* zero-extended), for every length; with NEEDS_CSUM this value over
\* payload[csum_start..len) is what a store inside the payload puts at
\* payload offset csum_start + csum_offset, the other bytes unchanged.
C24_CsumIsOnesComplement ==
    /\ ~csm.done =>
          vnet_csum(csm.buf) = 65535 - OnesSum(csm.buf, 0)
    /\ (csm.done /\ csm.stored
           /\ csm.csum_start + csm.csum_offset + 2 <= Len(csm.buf)) =>
          LET at == csm.csum_start + csm.csum_offset
              want == 65535 - OnesSum(SubSeq(csm.buf, csm.csum_start + 1,
                                             Len(csm.buf)), 0)
          IN /\ csm.out[at + 1] + 256 * csm.out[at + 2] = want
             /\ \A i \in 1..Len(csm.buf) :
                   i \notin {at + 1, at + 2} => csm.out[i] = csm.buf[i]

\* The 60-byte frame with csum_start 14 and csum_offset 16 has its checksum
\* at offset 30.
C24_Witness ==
    /\ csm.done
    /\ csm.stored
    /\ csm.buf = Frame60
    /\ csm.csum_start = 14
    /\ csm.csum_offset = 16
    /\ csm.out # csm.buf

(* ------------------- rejection after admission (C26) ------------------- *)
\* The iocbs that iocb_enqueue rejects after admission whenever it gets that
\* far, with the error of each: unsupported opcode, fd not writable, no
\* write callable, fault.
RejectedIocbs == {4, 6, 7, 8}

RejectError(addr) ==
    CASE addr = 4 -> -EINVAL
      [] addr = 6 -> -EBADF
      [] addr = 7 -> -EINVAL
      [] addr = 8 -> -EFAULT
      [] OTHER -> -ENOMEM

\* Thread t is admitted with an iocb that is then rejected.
C26_Admit(t) ==
    LET c == th[t].aio
        fd == Iocb(th'[t].iocbp).aio_fildes
    IN (th[t].pc = "submit" /\ th'[t].pc = "rollback") =>
          /\ aio'[c].ongoing_ops = aio[c].ongoing_ops + 1
          /\ aio'[c].refcount = aio[c].refcount + 1
          /\ fdrefs' = [fdrefs EXCEPT ![fd] = @ + 1]
          /\ ops' = ops
          /\ ring' = ring
          /\ th'[t].rv \in {RejectError(th'[t].iocbp), -ENOMEM}

\* Thread t leaves iocb_enqueue through the error label; io_submit returns in
\* the same step and drops the reference its lookup took.
C26_Rollback(t) ==
    LET c == th[t].aio
        x == th[t]
        fd == Iocb(x.iocbp).aio_fildes
        r == gh'.last.x
    IN th[t].pc = "rollback" =>
          /\ th'[t].pc = "idle"
          /\ gh'.last.t = t
          /\ r.rv = x.rv
          /\ r.ret = IF x.disp = 0 THEN x.rv ELSE x.disp
          /\ fdrefs' = [fdrefs EXCEPT ![fd] = @ - 1]
          /\ ops' = ops
          /\ IF aio[c].refcount > 2
             THEN /\ aio'[c].refcount = aio[c].refcount - 2
                  /\ aio'[c].ongoing_ops = aio[c].ongoing_ops - 1
                  /\ ring' = ring
             ELSE aio'[c].st = "freed"

NoTraceOfRejected ==
    /\ \A op \in BagToSet(ops) : op.obj \notin RejectedIocbs
    /\ \A c \in Ctxs :
          /\ \A i \in DOMAIN gh.fifo[c] : gh.fifo[c][i].obj \notin RejectedIocbs
          /\ \A i \in DOMAIN ring[c].events :
                ring[c].events[i].obj \notin RejectedIocbs

\* C26: a submission rejected after admission has raised ongoing_ops, the
\* context refcount and the fd's reference count by one each and lowers each
\* by one again on its error path, so that all three are what they were
\* before the call; it returns its error (EINVAL for an opcode other than
\* PREAD/PWRITE); it registers no completion closure and no event is ever
\* produced for it.
C26_RejectedAfterAdmissionRestores ==
    /\ [][\A t \in Threads : (th'[t] # th[t]) => C26_Admit(t) /\ C26_Rollback(t)]_vars
    /\ []NoTraceOfRejected

\* io_submit of a PREAD and an IOCB_CMD_FSYNC: the first is in flight, the
\* second was admitted and rejected with EINVAL, and the counts are those of
\* the one operation in flight.
C26_Witness ==
    /\ Ret.call = "io_submit"
    /\ Ret.iocbp = 4
    /\ Ret.rv = -EINVAL
    /\ Ret.disp = 1
    /\ Ret.ret = 1
    /\ Ret.aio \in Live
    /\ aio[Ret.aio].ongoing_ops = 1
    /\ aio[Ret.aio].refcount = 2
    /\ fdrefs[3] = 1
    /\ BagCardinality(ops) = 1

(* ------------------------ RESFD notification (C27) --------------------- *)
\* The positions of what in the sequence s.
Places(s, what) == {i \in DOMAIN s : s[i] = what}

\* What the part of aio_complete after the unlock did in the step just taken.
Cw == gh.cw

\* The completion that ran in this step: its operation was published (event
\* stored, tail advanced, lock released) by an earlier step, and this step
\* changes neither the tail nor ongoing_ops of a context it does not free (the
\* reader it wakes may move the head).
C27_AfterPublication ==
    gh'.cw.ran =>
        /\ \E op \in BagToSet(ops) :
              /\ op.st = "published"
              /\ op.res_fd = gh'.cw.res_fd
              /\ CopiesIn(op, ops') = CopiesIn(op, ops) - 1
        /\ \A c \in Ctxs : aio[c].st = "live" /\ aio'[c].st = "live"
                              => /\ aio'[c].ongoing_ops = aio[c].ongoing_ops
                                 /\ ring'[c].tail = ring[c].tail

\* One write of 1 to a writable resfd, issued before the wake-up; the
\* process context reference stays with the write.
C27_Write ==
    (gh'.cw.ran /\ gh'.cw.res_fd = 8) =>
        /\ Cardinality(Places(gh'.cw.did, "write_1")) = 1
        /\ \A i \in Places(gh'.cw.did, "write_1") :
              \A j \in Places(gh'.cw.did, "wake") : i < j
        /\ Places(gh'.cw.did, "release_ctx") = {}
        /\ gh'.pctx = gh.pctx
        /\ \E e \in BagToSet(ops') :
              /\ e.st = "efd_write" /\ e.fd = 8
              /\ CopiesIn(e, ops') = CopiesIn(e, ops) + 1

\* No RESFD, resfd missing or resfd not writable: no write, and the process
\* context reference is released once.
C27_NoWrite ==
    (gh'.cw.ran /\ gh'.cw.res_fd # 8) =>
        /\ gh'.cw.res_fd \in {AIO_RESFD_INVALID, 9, 4}
        /\ Places(gh'.cw.did, "write_1") = {}
        /\ Cardinality(Places(gh'.cw.did, "release_ctx")) = 1
        /\ gh'.pctx = gh.pctx - 1
        /\ \A e \in BagToSet(ops') :
              e.st = "efd_write" => CopiesIn(e, ops') = CopiesIn(e, ops)

\* Every closure that is pending (an operation in flight or published, a
\* write to an eventfd) holds one reference on the process context, and
\* nothing else does.
PctxBalanced == gh.pctx = BagCardinality(ops)

\* C27: a completion with IOCB_FLAG_RESFD and a writable resfd issues exactly
\* one write of the 8-byte value 1 to it, after the event was published and
\* the lock released, and before it wakes the blocked reader; without RESFD,
\* or with a resfd that is missing or not writable, it issues no write and
\* releases the captured process context reference exactly once.
C27_ResfdWriteOnceBeforeWake ==
    /\ [][C27_AfterPublication /\ C27_Write /\ C27_NoWrite]_vars
    /\ []PctxBalanced

\* A completion with a writable resfd has just issued its write and woken
\* the reader that was blocked in io_getevents.
C27_Witness ==
    /\ Cw.ran
    /\ Cw.res_fd = 8
    /\ Cw.did = <<"put_f", "get_res", "write_1", "wake", "release_aio">>
    /\ fdrefs[8] = 1
    /\ gh.pctx = 1

(* --------------------------- lock discipline (C28) --------------------- *)
GuardedFields == {"head", "tail", "ongoing_ops", "copied_evts", "bq"}

\* Every write to a guarded field in the step just taken was made by the
\* holder of the lock.
WritesUnderLock == lk.bad \cap GuardedFields = {}

\* io_getevents_bh was entered with the lock held or took it itself, released
\* it once on the path it left by, and nobody released a lock it did not
\* hold.
BhLockBalanced ==
    /\ lk.bad \cap {"enter", "release", "released twice"} = {}
    /\ \A r \in LkReaders : lk.r[r].pc = "blocked" => lk.r[r].rel = 1

\* No blocked thread holds the lock.
NotBlockedHolding == \A r \in LkReaders : lk.r[r].pc = "blocked" => lk.lock # r

\* C28: the context spinlock is held for every write to head, tail,
\* ongoing_ops, copied_evts and bq; io_getevents_bh is entered with the lock
\* held unless BLOCKQ_ACTION_BLOCKED is set, in which case it takes it; on
\* every exit path it has released the lock exactly once; the lock is never
\* held by a blocked thread and never released by a path that does not hold
\* it.
C28_LockDiscipline ==
    /\ WritesUnderLock
    /\ BhLockBalanced
    /\ NotBlockedHolding

(* ------------------------------ BAR set-up (C29) ----------------------- *)
\* The last call of pci_platform_init_bar and the register it was about.
BarLast == bar.last

BarNow == bar.reg[BarLast.bar]

\* The call found a memory BAR whose address bits were all zero.
UnconfiguredMemory == BarLast.before.lo % 2 = 0 /\ BarLast.before.hi = 0

\* C29: pci_platform_init_bar writes a base into the BAR register only when
\* the BAR is a memory BAR with all address bits zero, the bus has an iomem
\* range and the allocation succeeded, and that base is below 4 GiB; a BAR
\* with a nonzero base, an I/O-port BAR, a bus without iomem heap and a failed
\* allocation leave the register as it was.
C29_BarWrittenOnlyWhenAllocated ==
    BarLast.ran =>
        /\ BarLast.wrote =>
              /\ UnconfiguredMemory
              /\ bar.iomem # <<>>
              /\ BarLast.base # INVALID_PHYSICAL
              /\ 0 <= BarLast.base /\ BarLast.base < AllocLimit
              /\ BarNow = [hi |-> BarLast.base, lo |-> BarLast.before.lo]
        /\ (\/ ~UnconfiguredMemory
            \/ bar.iomem = <<>>
            \/ BarLast.base = INVALID_PHYSICAL)
              => ~BarLast.wrote /\ BarNow = BarLast.before
        /\ BarLast.wrote \/ BarNow = BarLast.before

\* A 64-bit memory BAR without a base got the last 1 MiB below 4 GiB from
\* a range that goes on above it.
C29_Witness ==
    /\ BarLast.ran
    /\ BarLast.wrote
    /\ BarLast.before = [hi |-> 0, lo |-> 4]
    /\ bar.iomem = <<268369920, 268500992>>
    /\ BarLast.base = AllocLimit - 65536
    /\ BarNow = [hi |-> 268369920, lo |-> 4]

(* ------------------------ virtio_net_attach: pairs --------------------- *)
Attached == att.pc # "probe"

\* The CPUs whose txq_map entry is the TX queue of pair i.
PairCpus(i) == {c \in 0..(att.ncpu - 1) : att.txq_map[c] = 2 * i + 1}

\* The share of pair i when ncpu CPUs are dealt out evenly to vq_pairs pairs,
\* the first ncpu mod vq_pairs pairs taking one more, and the first CPU of
\* that share.
PairShare(i) ==
    (att.ncpu \div att.vq_pairs)
    + (IF i < att.ncpu % att.vq_pairs THEN 1 ELSE 0)

PairFirst(i) ==
    i * (att.ncpu \div att.vq_pairs) + MIN(i, att.ncpu % att.vq_pairs)

\* C31: after attach vq_pairs is min(device_max, ncpu) when MQ was negotiated
\* and 1 otherwise; every CPU below ncpu is mapped to the TX queue of exactly
\* one pair; pair i owns the contiguous range of CPUs that starts where the
\* shares of the pairs before it end and has floor(ncpu / vq_pairs) CPUs, one
\* more for the first ncpu mod vq_pairs pairs; the affinity bitmap handed to
\* both queues of pair i holds exactly pair i's CPUs.
C31_AttachPartitionsCpus ==
    Attached =>
        /\ att.vq_pairs = (IF att.mq THEN MIN(att.device_max, att.ncpu) ELSE 1)
        /\ \A c \in 0..(att.ncpu - 1) :
               Cardinality({i \in 0..(att.vq_pairs - 1) : c \in PairCpus(i)}) = 1
        /\ \A i \in 0..(att.vq_pairs - 1) :
               /\ PairCpus(i) = PairFirst(i)..(PairFirst(i) + PairShare(i) - 1)
               /\ Cardinality(PairCpus(i)) = PairShare(i)
               /\ att.aff[2 * i] = PairCpus(i)
               /\ att.aff[2 * i + 1] = PairCpus(i)
               /\ {2 * i, 2 * i + 1} \subseteq att.queues
               /\ 2 * i + 1 \in att.polling

\* Four CPUs on a device with three pairs: pair 0 has CPUs 0 and 1, pairs 1
\* and 2 one CPU each.
C31_Witness ==
    /\ att.pc = "up"
    /\ att.ncpu = 4
    /\ att.vq_pairs = 3
    /\ PairCpus(0) = {0, 1}
    /\ PairCpus(1) = {2}
    /\ PairCpus(2) = {3}
    /\ att.aff[5] = {3}

(* ----------------------- low_level_output: TX queues ------------------- *)
\* The CPUs that are between the choice of a TX queue and vqmsg_commit.
InOutput == {c \in AttCpus : att.cpu[c].pc = "msg"}

OutputOnOwnQueue == \A c \in InOutput : att.cpu[c].txq = att.txq_map[c]

NoSharedTxQueue ==
    Attached =>
        \A c, d \in 0..(att.ncpu - 1) :
            c # d => att.txq_map[c] # att.txq_map[d]

NoConcurrentTxQueueUse ==
    \A c, d \in InOutput : c # d => att.cpu[c].txq # att.cpu[d].txq

\* C32: low_level_output on CPU c pushes only to txq_map[c], no two distinct
\* CPUs are mapped to the same TX virtqueue, and so no TX virtqueue is worked
\* on by two CPUs at once, for every ncpu and vq_pairs.
C32_TxPartitionedPerCpu ==
    /\ OutputOnOwnQueue
    /\ NoSharedTxQueue
    /\ NoConcurrentTxQueueUse

(* ----------------------------- vnet_ctrl_cmd --------------------------- *)
\* vnet_ctrl_cmd has been called (attach calls it when vq_pairs > 1).
CtrlCmdCalled == Attached /\ att.vq_pairs > 1

\* The control message is with the device.
CtrlCmdInFlight == att.cmd.st = "live"

\* The device wrote exactly one byte and that byte, ack, is VIRTIO_NET_OK.
AckedOk ==
    /\ att.cmd.st = "freed"
    /\ att.cmd.completion = "vnet_cmd_mq_complete"
    /\ att.len = 1
    /\ att.cmd.ack = VIRTIO_NET_OK

\* C33: a call of vnet_ctrl_cmd applies the caller's completion exactly once
\* (never while the message is with the device, once from then on); the
\* status is STATUS_OK exactly when the device wrote one byte and ack is 0,
\* and a status with the key "result" otherwise, the failed allocations of
\* the command and of the message included; ack is ERR when the message is
\* committed; an allocated command is freed once, and nothing reads it after
\* that.
C33_CtrlCmdCompletesOnce ==
    /\ ~CtrlCmdCalled => att.compl = <<>> /\ att.frees = 0
    /\ CtrlCmdInFlight =>
           /\ att.compl = <<>>
           /\ att.frees = 0
           /\ att.cmd.ack = VIRTIO_NET_ERR
    /\ CtrlCmdCalled /\ ~CtrlCmdInFlight =>
           /\ Len(att.compl) = 1
           /\ att.compl[1] = STATUS_OK <=> AckedOk
           /\ att.compl[1] # STATUS_OK => att.compl[1].key = "result"
           /\ att.frees = (IF att.cmd.st = "freed" THEN 1 ELSE 0)
    /\ ~att.late

\* The device acknowledged with one byte, 0: the completion ran once with
\* STATUS_OK after the command was freed.
C33_Witness ==
    /\ CtrlCmdCalled
    /\ AckedOk
    /\ att.compl = <<STATUS_OK>>
    /\ att.frees = 1

C33_WitnessNak ==
    /\ CtrlCmdCalled
    /\ att.len = 1
    /\ att.cmd.ack = VIRTIO_NET_ERR
    /\ att.compl = <<timm("result", "command status")>>
    /\ att.frees = 1

(* ------------------------- attach: registration ------------------------ *)
RxQueues_att == {2 * i : i \in 0..(att.vq_pairs - 1)}

\* netif_add ran at most once, and when it ran it filled every RX queue.
RegisteredOnce ==
    /\ att.netif <= 1
    /\ att.pc = "up" <=> att.netif = 1
    /\ att.netif = 1 => att.seeded = RxQueues_att /\ att.driver_ok

\* With more than one pair the command MQ_VQ_PAIRS_SET carrying vq_pairs is
\* committed after DRIVER_OK, and netif_add comes after its OK.
RegisteredAfterAck ==
    /\ CtrlCmdInFlight =>
           /\ att.log = <<"driver_ok", "cmd">>
           /\ att.cmd.class = "CTRL_MQ"
           /\ att.cmd.cmd = "MQ_VQ_PAIRS_SET"
           /\ att.cmd.data = att.vq_pairs
           /\ att.netif = 0
    /\ CtrlCmdCalled /\ att.netif = 1 =>
           /\ att.log = <<"driver_ok", "cmd", "ack_ok", "netif_add">>
           /\ AckedOk
    /\ Attached /\ ~CtrlCmdCalled =>
           att.log = <<"driver_ok", "netif_add">>

\* The command failed: the completion got a status other than STATUS_OK.
CtrlCmdFailed == att.compl # <<>> /\ att.compl[1] # STATUS_OK

\* A failed command is dropped: no registration, and the kernel runs on.
FailureDropped == CtrlCmdFailed => att.netif = 0 /\ att.pc # "halted"

\* C34: attach registers the netif exactly once (netif_add, which fills the
\* RX queues); with multi-queue active MQ_VQ_PAIRS_SET carrying vq_pairs is
\* issued after DRIVER_OK and the netif is registered only after the OK
\* acknowledgement; a NAK or a wrong written length is logged and dropped
\* and never leads to registration.
C34_RegisteredOnceAfterAck ==
    /\ RegisteredOnce
    /\ RegisteredAfterAck
    /\ FailureDropped

(* --------------------- io_getevents: the caller's array ---------------- *)
\* The io_getevents call that returned in the step just taken.
GeReturned == gh.last.t # 0 /\ gh.last.x.call = "io_getevents"

\* C35: io_getevents(ctx, min_nr, nr, events, ..) never stores an event at
\* an index >= nr of the caller's array and never returns a count above nr,
\* whatever other threads do on the same context.
C35_HarvestWithinNr ==
    /\ ~gh.oob
    /\ GeReturned => gh.last.x.ret <= gh.last.x.nr

(* ------------------------ references taken per call -------------------- *)
NoCallInProgress == \A t \in Threads : th[t].pc = "idle"

InTable(c) == \E i \in Ids : aio_tab[i] = c

\* C36: every io_submit and io_getevents call that has returned, with a
\* count or with any error (EINVAL for nr <= 0 or nr < min_nr on an existing
\* context included), has released the reference its lookup took: whenever
\* no call is in progress a context's refcount is 1 if it is in the table
\* plus the number of its outstanding completion closures.
C36_ReferenceBalancedPerCall ==
    NoCallInProgress =>
        \A c \in Ctxs :
            aio[c].st = "live" =>
                aio[c].refcount = (IF InTable(c) THEN 1 ELSE 0) + ClosuresOn(c)

(* ----------------------- io_getevents: events taken -------------------- *)
\* A nullified io_getevents returned in the step just taken.
GeNullified == GeReturned /\ gh.last.x.ret \in {-EINTR, -ERESTARTSYS}

\* C37: no harvested event is lost: the ring slots by which the io_getevents
\* calls that have returned advanced head add up to the sum of the
\* non-negative counts they returned; in particular a call nullified after
\* it copied fewer than min_nr events has taken nothing out of the ring.
C37_NoHarvestedEventLost ==
    /\ gh.lost = 0
    /\ GeNullified => gh.last.x.got = 0

(* ------------------------ io_getevents: EFAULT ------------------------- *)
\* Thread t's io_getevents_bh ran in this step and the copy to the caller's
\* array faulted.
CopyFaulted(t) ==
    /\ th[t].call = "io_getevents"
    /\ th[t].pc \in {"ge_enter", "blocked"}
    /\ gh'.last.t = t
    /\ gh'.last.x.ret = -EFAULT

\* C38: when the copy of events to the caller's array faults, io_getevents
\* returns EFAULT and the pass leaves the ring as it found it: head and tail
\* keep their values, so the events are still there for a later io_getevents.
C38_FaultLeavesRing ==
    [][\A t \in Threads :
          CopyFaulted(t) /\ aio'[th[t].aio].st = "live" =>
              /\ ring'[th[t].aio].head = ring[th[t].aio].head
              /\ ring'[th[t].aio].tail = ring[th[t].aio].tail
              /\ ring'[th[t].aio].events = ring[th[t].aio].events
              /\ gh'.fifo[th[t].aio] = gh.fifo[th[t].aio]]_vars

\* The second entry of the caller's array faulted with two events in the
\* ring: the call returned EFAULT and both events are still in the ring.
C38_Witness ==
    /\ GeReturned
    /\ gh.last.x.ret = -EFAULT
    /\ gh.last.x.events = "bad1"
    /\ gh.last.x.aio # 0
    /\ aio[gh.last.x.aio].st = "live"
    /\ aio[gh.last.x.aio].copied_evts = 1
    /\ ring[gh.last.x.aio].head = 0
    /\ ring[gh.last.x.aio].tail = 2
    /\ Len(gh.fifo[gh.last.x.aio]) = 2

(* ------------------------- the context a call uses --------------------- *)
\* C39: io_submit and io_getevents only ever work on the context whose ring
\* the caller named: also after io_destroy has released the id of a context
\* whose ring is still mapped and io_setup has given that id to a new
\* context, a call through the old ring pointer does not get the new one.
C39_CallUsesNamedContext ==
    \A t \in Threads :
        (th[t].call \in {"io_submit", "io_getevents"} /\ th[t].aio # 0)
            => th[t].aio = th[t].ctx_id
====
